---- MODULE Spec2Model ----
(***************************************************************************)
(* MailSafePro n8n node: the execute method of the node (item loop, the    *)
(* per-operation handlers, the 429 retry loop of email/validate, the       *)
(* waitForCompletion polling loop and the continueOnFail catch block),     *)
(* together with the helper functions the handlers call.                   *)
(*                                                                         *)
(* Strings are sequences of one-character strings.  Times are integers in  *)
(* milliseconds, as returned by Date.now().  An HTTP call is two steps:    *)
(* the request is issued (inflight = 1) and later answered by the remote   *)
(* API, which is free to answer anything.                                  *)
(***************************************************************************)
EXTENDS Integers, Sequences, FiniteSets, TLC

(***************************************************************************)
(* Program constants                                                       *)
(***************************************************************************)
DEFAULT_TIMEOUT == 30000
MAX_SYNC_BATCH == 100
MAX_ASYNC_BATCH == 10000
DEFAULT_POLL_INTERVAL == 10
DEFAULT_MAX_WAIT == 300
MAX_RETRIES == 3
RETRY_DELAY_BASE == 1000

(***************************************************************************)
(* Bounds of the model                                                     *)
(***************************************************************************)
MaxItems == 2        \* input items per execution
MaxSlow == 1         \* HTTP answers per execution that take SlowLatency ms
MaxResults == 2      \* records in a results page answered by the server
SlowLatency == 5000  \* ms an answer that is not instantaneous takes

(***************************************************************************)
(* Characters and strings                                                  *)
(***************************************************************************)
Separators == {",", "\n", ";", "\r", "\t"}
Whitespace == {" ", "\n", "\r", "\t"}

\* String.prototype.toLowerCase on one character
LowerChar(c) ==
    CASE c = "A" -> "a"
      [] c = "B" -> "b"
      [] c = "C" -> "c"
      [] c = "J" -> "j"
      [] OTHER -> c

toLowerCase(s) == [k \in 1..Len(s) |-> LowerChar(s[k])]

\* String.prototype.trim: drop leading and trailing whitespace
trim(s) ==
    LET keep == {k \in 1..Len(s) : s[k] \notin Whitespace}
    IN IF keep = {} THEN <<>>
       ELSE LET first == CHOOSE k \in keep : \A m \in keep : k <= m
                last == CHOOSE k \in keep : \A m \in keep : m <= k
            IN SubSeq(s, first, last)

\* EMAIL_REGEX.test(e) for /^[^\s@]+@[^\s@]+\.[^\s@]+$/
EMAIL_REGEX_test(e) ==
    \E p \in 1..Len(e) :
        /\ e[p] = "@"
        /\ p > 1
        /\ \A k \in 1..Len(e) : e[k] \notin Whitespace /\ (e[k] = "@" => k = p)
        /\ \E q \in (p + 2)..(Len(e) - 1) : e[q] = "."

\* input.split(/[,\n;\r\t]+/) without the empty strings, which the filter of
\* parseEmails drops anyway: the maximal runs of non-separator characters
IsFieldStart(s, p) == s[p] \notin Separators /\ (p = 1 \/ s[p - 1] \in Separators)

IsFieldEnd(s, p) == s[p] \notin Separators /\ (p = Len(s) \/ s[p + 1] \in Separators)

\* the k-th run starts at the k-th start position and ends at the k-th end position
FieldsAt(s, starts, ends) ==
    [k \in 1..Len(starts) |-> SubSeq(s, starts[k], ends[k])]

split(s) ==
    LET positions == [k \in 1..Len(s) |-> k]
    IN FieldsAt(s, SelectSeq(positions, LAMBDA p : IsFieldStart(s, p)),
                   SelectSeq(positions, LAMBDA p : IsFieldEnd(s, p)))

\* the map of parseEmails without toLowerCase
NormalizeWithoutLowerCase(fields) == [k \in 1..Len(fields) |-> trim(fields[k])]

NormalizeAll(fields) == [k \in 1..Len(fields) |-> toLowerCase(trim(fields[k]))]

parseEmails(input) ==
    SelectSeq(NormalizeAll(split(input)),
              LAMBDA e : Len(e) > 0 /\ EMAIL_REGEX_test(e))

\* the last occurrence of every email is kept, not the first
IsLastOccurrence(emails, k) == \A j \in (k + 1)..Len(emails) : emails[j] # emails[k]

\* [...new Set(emails)]: the first occurrence of every email, in order
IsFirstOccurrence(emails, k) == \A j \in 1..(k - 1) : emails[j] # emails[k]

Unique(emails) ==
    LET firsts == SelectSeq([k \in 1..Len(emails) |-> k],
                            LAMBDA k : IsFirstOccurrence(emails, k))
    IN [k \in 1..Len(firsts) |-> emails[firsts[k]]]

deduplicateEmails(emails) ==
    LET unique == Unique(emails)
    IN [unique |-> unique, duplicates |-> Len(emails) - Len(unique)]


(***************************************************************************)
(* Result classifier.  Scores are in hundredths: 0.3 is 30.                *)
(***************************************************************************)
RISK_LOW == 30
RISK_MEDIUM == 50
RISK_HIGH == 70
QUALITY_EXCELLENT == 80
QUALITY_GOOD == 60
QUALITY_FAIR == 40

\* a missing score read as the highest score
ScoreOrHighest(result, name) == IF name \in DOMAIN result THEN result[name] ELSE 100

\* result.risk_score ?? 0
ScoreOrZero(result, name) == IF name \in DOMAIN result THEN result[name] ELSE 0

\* the thresholds of the risk level compared with <=
calculateRiskLevelInclusive(score) ==
    IF score <= RISK_LOW THEN "low"
    ELSE IF score <= RISK_HIGH THEN "medium"
    ELSE "high"

calculateRiskLevel(score) ==
    IF score < RISK_LOW THEN "low"
    ELSE IF score < RISK_HIGH THEN "medium"
    ELSE "high"

\* the thresholds of the quality tier compared with >=
calculateQualityTierInclusive(score) ==
    IF score >= QUALITY_EXCELLENT THEN "excellent"
    ELSE IF score >= QUALITY_GOOD THEN "good"
    ELSE IF score >= QUALITY_FAIR THEN "fair"
    ELSE "poor"

calculateQualityTier(score) ==
    IF score > QUALITY_EXCELLENT THEN "excellent"
    ELSE IF score > QUALITY_GOOD THEN "good"
    ELSE IF score > QUALITY_FAIR THEN "fair"
    ELSE "poor"

\* the rules with the status tested before valid
getRecommendationStatusFirst(result) ==
    LET riskScore == ScoreOrZero(result, "risk_score")
    IN IF result.status = "undeliverable" THEN "Do not send - Undeliverable"
       ELSE IF result.valid # TRUE THEN "Do not send - Invalid email"
       ELSE IF riskScore >= RISK_HIGH THEN "High risk - Manual review required"
       ELSE IF riskScore >= RISK_MEDIUM THEN "Medium risk - Consider verification"
       ELSE IF riskScore >= RISK_LOW THEN "Low risk - Safe with monitoring"
       ELSE "Safe to send"

getRecommendation(result) ==
    LET riskScore == ScoreOrZero(result, "risk_score")
    IN IF result.valid # TRUE THEN "Do not send - Invalid email"
       ELSE IF result.status = "undeliverable" THEN "Do not send - Undeliverable"
       ELSE IF riskScore >= RISK_HIGH THEN "High risk - Manual review required"
       ELSE IF riskScore >= RISK_MEDIUM THEN "Medium risk - Consider verification"
       ELSE IF riskScore >= RISK_LOW THEN "Low risk - Safe with monitoring"
       ELSE "Safe to send"

deliverabilityStatus(status) ==
    IF status = "deliverable" THEN "high"
    ELSE IF status = "risky" THEN "medium"
    ELSE IF status = "undeliverable" THEN "low"
    ELSE "unknown"

\* {...b, ...a}: the fields of a override the same-named fields of b
SpreadKeepsFirst(a, b) ==
    [f \in DOMAIN a \cup DOMAIN b |-> IF f \in DOMAIN a THEN a[f] ELSE b[f]]

\* {...a, ...b}: the fields of b override the same-named fields of a
Spread(a, b) ==
    [f \in DOMAIN a \cup DOMAIN b |-> IF f \in DOMAIN b THEN b[f] ELSE a[f]]

\* the coarse status written over the record's own status
enrichValidationResultOverStatus(result, t) ==
    LET riskScore == ScoreOrZero(result, "risk_score")
        qualityScore == ScoreOrZero(result, "quality_score")
    IN Spread(result,
         [risk_level |-> calculateRiskLevel(riskScore),
          quality_tier |-> calculateQualityTier(qualityScore),
          status |-> deliverabilityStatus(result.status),
          deliverability_status |-> deliverabilityStatus(result.status),
          is_high_risk |-> riskScore >= RISK_HIGH,
          is_safe_to_send |-> result.valid = TRUE /\ riskScore < RISK_MEDIUM,
          should_review |-> riskScore >= RISK_LOW /\ riskScore < RISK_HIGH,
          recommendation |-> getRecommendation(result),
          validated_at |-> t])

enrichValidationResult(result, t) ==
    LET riskScore == ScoreOrZero(result, "risk_score")
        qualityScore == ScoreOrZero(result, "quality_score")
    IN Spread(result,
         [risk_level |-> calculateRiskLevel(riskScore),
          quality_tier |-> calculateQualityTier(qualityScore),
          deliverability_status |-> deliverabilityStatus(result.status),
          is_high_risk |-> riskScore >= RISK_HIGH,
          is_safe_to_send |-> result.valid = TRUE /\ riskScore < RISK_MEDIUM,
          should_review |-> riskScore >= RISK_LOW /\ riskScore < RISK_HIGH,
          recommendation |-> getRecommendation(result),
          validated_at |-> t])

EnrichAll(results, t) == [k \in 1..Len(results) |-> enrichValidationResult(results[k], t)]

(***************************************************************************)
(* Batch statistics.  Rates are in hundredths of a percent and averages in *)
(* hundredths of a score: Math.round(x * 100) / 100 keeps two decimals.    *)
(***************************************************************************)
\* a whole added before the division where a half is meant
RoundDivAddsOne(num, den) == (num + den) \div den

\* Math.round(num / den) for num >= 0, den > 0
RoundDiv(num, den) == (2 * num + den) \div (2 * den)

CountWhere(results, Test(_)) == Len(SelectSeq(results, Test))

RECURSIVE SumScore(_, _)
SumScore(results, name) ==
    IF results = <<>> THEN 0
    ELSE ScoreOrZero(Head(results), name) + SumScore(Tail(results), name)

\* the counts by action recomputed from risk_score instead of read from the flags
calculateBatchStatisticsFromScores(results) ==
    LET total == Len(results)
        deliverable == CountWhere(results, LAMBDA r : r.status = "deliverable")
        undeliverable == CountWhere(results, LAMBDA r : r.status = "undeliverable")
        risky == CountWhere(results, LAMBDA r : r.status = "risky")
        unknown == CountWhere(results, LAMBDA r : r.status = "unknown")
        safeToSend == CountWhere(results, LAMBDA r :
                          r.valid = TRUE /\ ScoreOrZero(r, "risk_score") < RISK_MEDIUM)
        needsReview == CountWhere(results, LAMBDA r :
                           /\ ScoreOrZero(r, "risk_score") >= RISK_LOW
                           /\ ScoreOrZero(r, "risk_score") < RISK_HIGH)
        highRisk == CountWhere(results, LAMBDA r : ScoreOrZero(r, "risk_score") >= RISK_HIGH)
    IN IF total = 0 THEN [total |-> 0]
       ELSE [total |-> total,
             by_status |-> [deliverable |-> deliverable, undeliverable |-> undeliverable,
                            risky |-> risky, unknown |-> unknown],
             by_action |-> [safe_to_send |-> safeToSend, needs_review |-> needsReview,
                            high_risk |-> highRisk],
             rates |-> [deliverability_rate |-> RoundDiv(deliverable * 10000, total),
                        risk_rate |-> RoundDiv(highRisk * 10000, total),
                        quality_rate |-> RoundDiv(safeToSend * 10000, total)],
             averages |-> [risk_score |-> RoundDiv(SumScore(results, "risk_score"), total),
                           quality_score |-> RoundDiv(SumScore(results, "quality_score"), total)]]

calculateBatchStatistics(results) ==
    LET total == Len(results)
        deliverable == CountWhere(results, LAMBDA r : r.status = "deliverable")
        undeliverable == CountWhere(results, LAMBDA r : r.status = "undeliverable")
        risky == CountWhere(results, LAMBDA r : r.status = "risky")
        unknown == CountWhere(results, LAMBDA r : r.status = "unknown")
        safeToSend == CountWhere(results, LAMBDA r : r.is_safe_to_send)
        needsReview == CountWhere(results, LAMBDA r : r.should_review)
        highRisk == CountWhere(results, LAMBDA r : r.is_high_risk)
    IN IF total = 0 THEN [total |-> 0]
       ELSE [total |-> total,
             by_status |-> [deliverable |-> deliverable, undeliverable |-> undeliverable,
                            risky |-> risky, unknown |-> unknown],
             by_action |-> [safe_to_send |-> safeToSend, needs_review |-> needsReview,
                            high_risk |-> highRisk],
             rates |-> [deliverability_rate |-> RoundDiv(deliverable * 10000, total),
                        risk_rate |-> RoundDiv(highRisk * 10000, total),
                        quality_rate |-> RoundDiv(safeToSend * 10000, total)],
             averages |-> [risk_score |-> RoundDiv(SumScore(results, "risk_score"), total),
                           quality_score |-> RoundDiv(SumScore(results, "quality_score"), total)]]

(***************************************************************************)
(* Error messages and the completion estimate                              *)
(***************************************************************************)
\* A message is the sequence of the pieces the template concatenates.
formatApiError(statusCode, op, message) ==
    CASE statusCode = 400 -> <<"Invalid request. Please check your input parameters.">>
      [] statusCode = 401 -> <<"Authentication failed. Please verify your API key is correct and active.">>
      [] statusCode = 403 -> <<"Access denied. Your subscription plan may not include this feature.">>
      [] statusCode = 404 -> <<"Resource not found. The job ID may be invalid or expired.">>
      [] statusCode = 422 -> <<"Validation error. Please check the email format and parameters.">>
      [] statusCode = 429 -> <<"Rate limit exceeded. Please wait before making more requests or upgrade your plan.">>
      [] statusCode = 500 -> <<"Server error. The MailSafePro service is temporarily unavailable.">>
      [] statusCode = 502 -> <<"Bad gateway. Please try again in a few moments.">>
      [] statusCode = 503 -> <<"Service unavailable. The API is under maintenance.">>
      [] OTHER -> op \o <<" failed: ">>
                    \o (IF message = <<>> THEN <<"Unknown error">> ELSE message)
                    \o <<" (HTTP ", ToString(statusCode), ")">>

\* Math.ceil(num / den) for num >= 0, den > 0
CeilDiv(num, den) == (num + den - 1) \div den

Max(a, b) == IF a >= b THEN a ELSE b

\* the multipliers of low and high exchanged
PriorityTenthsExchanged(priority) ==
    CASE priority = "low" -> 6
      [] priority = "normal" -> 10
      [] priority = "high" -> 15
      [] OTHER -> 10

\* the priority multipliers 1.5, 1.0, 0.6 in tenths; an unknown priority is 1.0
PriorityTenths(priority) ==
    CASE priority = "low" -> 15
      [] priority = "normal" -> 10
      [] priority = "high" -> 6
      [] OTHER -> 10

\* the estimate without its lower limit
EstimateSecondsWithoutFloor(emailCount, priority, checkSmtp) ==
    LET baseTimePerEmail == IF checkSmtp THEN 8 ELSE 2
    IN CeilDiv(emailCount * baseTimePerEmail * PriorityTenths(priority), 10)

EstimateSeconds(emailCount, priority, checkSmtp) ==
    LET baseTimePerEmail == IF checkSmtp THEN 8 ELSE 2
    IN Max(30, CeilDiv(emailCount * baseTimePerEmail * PriorityTenths(priority), 10))

\* the timestamp, in ms, that estimateCompletion formats
estimateCompletion(emailCount, priority, checkSmtp, t) ==
    t + EstimateSeconds(emailCount, priority, checkSmtp) * 1000

\* estimateCompletion of the nodes/MailSafePro revision: 10 or 2 seconds an
\* email, the multipliers 1.5, 1.0, 0.5 (in halves: 3, 2, 1), no rounding (the
\* product is whole), at least 60 seconds
MailSafePro_estimateCompletion(emailCount, priority, checkSmtp, t) ==
    LET baseTimePerEmail == IF checkSmtp THEN 10 ELSE 2
        halves == CASE priority = "low" -> 3
                    [] priority = "normal" -> 2
                    [] priority = "high" -> 1
                    [] OTHER -> 2
        totalSeconds == Max(60, (emailCount * baseTimePerEmail * halves) \div 2)
    IN t + totalSeconds * 1000


(***************************************************************************)
(* Inputs: the parameter values the host resolves for an item              *)
(***************************************************************************)
Repeat(unit, n) == [k \in 1..(n * Len(unit)) |-> unit[((k - 1) % Len(unit)) + 1]] \o <<>>

\* values of the 'email' parameter
EmailTexts ==
    << <<" ", "A", "@", "b", ".", "c", "\n">>,
       <<"a", "b", ".", "c">>,
       <<>> >>

\* values of the 'emails' and 'batchEmails' parameters
EmailListTexts ==
    << <<"a", "@", "b", ".", "c">>,
       <<"a", "@", "b", ".", "c", ",", " ", "B", "@", "C", ".", "C", "\n",
         "b", "a", "d", ";", " ", "@", "n", ".", "c">>,
       <<"a", "@", "b", ".", "c", ";", "A", "@", "B", ".", "C">>,
       <<"b", "a", "d", ",", " ", "\t">>,
       <<>>,
       Repeat(<<"a", "@", "b", ".", "c", ",">>, MAX_SYNC_BATCH + 1),
       Repeat(<<"a", "@", "b", ".", "c", "\n">>, MAX_ASYNC_BATCH + 1) >>

\* parseEmails of each of them, computed once
ParsedEmailLists ==
    << parseEmails(EmailListTexts[1]), parseEmails(EmailListTexts[2]),
       parseEmails(EmailListTexts[3]), parseEmails(EmailListTexts[4]),
       parseEmails(EmailListTexts[5]), parseEmails(EmailListTexts[6]),
       parseEmails(EmailListTexts[7]) >>

\* values of the 'jobId' parameter
JobIdTexts ==
    << <<" ", "j", " ", "1", "\t">>,
       <<" ", " ">>,
       <<>> >>

\* encodeURIComponent on the characters a trimmed job ID of JobIdTexts can hold
encodeURIComponent(s) ==
    [k \in 1..Len(s) |-> IF s[k] = " " THEN "%20" ELSE s[k]]

\* an options collection: the fields the user set; a field may be missing
NoOptions == <<>>
IsSet(options, name) == name \in DOMAIN options
\* options.x !== false
NotFalse(options, name) == ~(IsSet(options, name) /\ options[name] = FALSE)
\* if (options.x) for a boolean x
Truthy(options, name) == IsSet(options, name) /\ options[name] = TRUE
\* if (options.x) for a number x
NonZero(options, name) == IsSet(options, name) /\ options[name] # 0
\* (options.x as number) || dflt
NumberOr(options, name, dflt) ==
    IF IsSet(options, name) /\ options[name] # 0 THEN options[name] ELSE dflt

(***************************************************************************)
(* What the remote API may answer                                          *)
(***************************************************************************)
\* status codes of a failed request; 0 is an error without a status code
ErrorCodes == {429, 500, 0}

ValidationRecords ==
    { [email |-> "a@b.c", valid |-> TRUE, status |-> "deliverable",
       risk_score |-> 10, quality_score |-> 90],
      [email |-> "b@c.c", valid |-> FALSE, status |-> "undeliverable",
       risk_score |-> 80] }

RECURSIVE SeqsUpTo(_, _)
SeqsUpTo(S, n) ==
    IF n = 0 THEN {<<>>}
    ELSE LET shorter == SeqsUpTo(S, n - 1)
         IN shorter \cup {Append(q, x) : q \in {r \in shorter : Len(r) = n - 1}, x \in S}

\* a response carrying a results page; the page may be missing
ResultsResponses ==
    {<<>>} \cup {[results |-> page] : page \in SeqsUpTo(ValidationRecords, MaxResults)}

\* answers of GET /jobs/{id}; "paused" stands for any status the node does not
\* know
JobResponses ==
    { [job_id |-> "j1", status |-> "pending", total_emails |-> 3, processed |-> 0,
       progress |-> 40],
      [job_id |-> "j1", status |-> "processing", total_emails |-> 3, processed |-> 1],
      [job_id |-> "j1", status |-> "paused"],
      [job_id |-> "j1", status |-> "completed", total_emails |-> 3, processed |-> 3],
      [job_id |-> "j1", status |-> "failed"],
      [job_id |-> "j1", status |-> "failed", error |-> "SMTP pool exhausted"],
      [job_id |-> "j1", status |-> "cancelled"] }

(***************************************************************************)
(* Errors                                                                  *)
(***************************************************************************)
NoError == [name |-> "none", statusCode |-> 0, message |-> <<>>, itemIndex |-> -1]

NodeOperationError(message, itemIndex) ==
    [name |-> "NodeOperationError", statusCode |-> 0, message |-> message,
     itemIndex |-> itemIndex]

\* the error httpRequestWithAuthentication rejects with
HttpError(code) ==
    [name |-> "HttpError", statusCode |-> code, message |-> <<"Request failed">>,
     itemIndex |-> -1]

\* reading response!.status of an undefined response
TypeError ==
    [name |-> "TypeError", statusCode |-> 0,
     message |-> <<"Cannot read properties of undefined">>, itemIndex |-> -1]

(***************************************************************************)
(* State                                                                   *)
(***************************************************************************)
VARIABLES
    resource, operation,   \* getNodeParameter('resource' | 'operation', 0)
    continueOnFail,        \* this.continueOnFail()
    nItems,                \* items.length
    i,                     \* index of the item being processed
    pc,                    \* where execute stands
    returnData,            \* the output records pushed so far
    thrown,                \* the error execute rejected with (NoError: none)
    result,                \* what execute returned: <<>> until it returns [returnData]
    inflight,              \* HTTP requests issued and not yet answered
    request,               \* the request issued last
    now,                   \* Date.now()
    slow,                  \* answers so far that took SlowLatency
    wakeAt,                \* when the pending sleep() resolves
    retries,               \* email/validate: retries
    maxWait, pollInterval, startTime, status, pollCount, jobCompleted,
                           \* batch/waitForCompletion: its locals
    locals,                \* the other locals a handler keeps across an await
    hist,                  \* per item: what was read, requested, slept and raised
    call                   \* a helper function called on its own: fn, arg, out, done

config == <<resource, operation, continueOnFail, nItems>>
loopVars == <<i, pc, returnData, thrown, result>>
netVars == <<inflight, request, now, slow, wakeAt>>
waitVars == <<maxWait, pollInterval, startTime, status, pollCount, jobCompleted>>
vars == <<config, loopVars, netVars, retries, waitVars, locals, hist, call>>

Operations ==
    { <<"email", "validate">>, <<"email", "quickCheck">>, <<"email", "validateMany">>,
      <<"batch", "createJob">>, <<"batch", "getStatus">>, <<"batch", "getResults">>,
      <<"batch", "waitForCompletion">>, <<"batch", "listJobs">>, <<"batch", "cancelJob">>,
      <<"account", "getUsage">>, <<"account", "getPlan">>, <<"account", "validate">> }

NoRequest == [method |-> "", url |-> <<>>, body |-> <<>>]

NewItem ==
    [input |-> 0, options |-> NoOptions, http |-> 0, polls |-> 0, fetches |-> 0,
     sleeps |-> <<>>, err |-> NoError, began |-> -1, ended |-> -1, slow |-> 0,
     answers |-> <<>>, steady |-> TRUE, last |-> <<>>, outputs |-> 0]

\* no helper function is called on its own during execute
NoCall == [fn |-> "", arg |-> <<>>, out |-> <<>>, done |-> FALSE]

\* execute has not started on its first item
Idle ==
    /\ i = 0
    /\ pc = "loop"
    /\ returnData = <<>>
    /\ thrown = NoError
    /\ result = <<>>
    /\ inflight = 0
    /\ request = NoRequest
    /\ now = 0
    /\ slow = 0
    /\ wakeAt = 0
    /\ retries = 0
    /\ maxWait = 0
    /\ pollInterval = 0
    /\ startTime = 0
    /\ status = <<>>
    /\ pollCount = 0
    /\ jobCompleted = FALSE
    /\ locals = <<>>
    /\ hist = [k \in 0..(nItems - 1) |-> NewItem]

Init ==
    /\ \E op \in Operations : resource = op[1] /\ operation = op[2]
    /\ continueOnFail \in BOOLEAN
    /\ nItems \in 1..MaxItems
    /\ Idle
    /\ call = NoCall

(***************************************************************************)
(* The ways a handler step ends.  Each sets loopVars and hist; h is the    *)
(* history record of item i after the step and t the time of the step.     *)
(***************************************************************************)
OperationName == <<resource, "/", operation>>

\* the record the catch block pushes when continueOnFail() is true; error_code,
\* the status code or 'UNKNOWN', is written here as text in both cases
ErrorJson(error, t) ==
    [error |-> IF error.statusCode # 0
               THEN formatApiError(error.statusCode, OperationName, error.message)
               ELSE error.message,
     error_code |-> IF error.statusCode # 0 THEN ToString(error.statusCode) ELSE "UNKNOWN",
     success |-> FALSE,
     operation |-> OperationName,
     timestamp |-> t]

\* the error the catch block throws when continueOnFail() is false
Rethrown(error) ==
    IF error.statusCode # 0
    THEN NodeOperationError(
             formatApiError(error.statusCode, OperationName, error.message), i)
    ELSE error

\* the catch block without its continueOnFail branch
CatchAlwaysRethrows(error, h, t) ==
    /\ pc' = "aborted"
    /\ thrown' = Rethrown(error)
    /\ hist' = [hist EXCEPT ![i] = [h EXCEPT !.err = error, !.ended = t]]
    /\ UNCHANGED <<i, returnData, result>>

\* the catch block that never rethrows
CatchAlwaysContinues(error, h, t) ==
    /\ returnData' = Append(returnData, [json |-> ErrorJson(error, t),
                                         pairedItem |-> [item |-> i]])
    /\ i' = i + 1
    /\ pc' = "loop"
    /\ hist' = [hist EXCEPT ![i] = [h EXCEPT !.err = error, !.ended = t,
                                             !.outputs = @ + 1]]
    /\ UNCHANGED <<thrown, result>>

\* catch (error) { ... }
Catch(error, h, t) ==
    IF continueOnFail
    THEN /\ returnData' = Append(returnData, [json |-> ErrorJson(error, t),
                                              pairedItem |-> [item |-> i]])
         /\ i' = i + 1
         /\ pc' = "loop"
         /\ hist' = [hist EXCEPT ![i] = [h EXCEPT !.err = error, !.ended = t,
                                                  !.outputs = @ + 1]]
         /\ UNCHANGED <<thrown, result>>
    ELSE /\ pc' = "aborted"
         /\ thrown' = Rethrown(error)
         /\ hist' = [hist EXCEPT ![i] = [h EXCEPT !.err = error, !.ended = t]]
         /\ UNCHANGED <<i, returnData, result>>

\* every record paired with the first input item
PushPairedWithFirst(responseData, h, t) ==
    /\ returnData' = Append(returnData, [json |-> responseData,
                                          pairedItem |-> [item |-> 0]])
    /\ i' = i + 1
    /\ pc' = "loop"
    /\ hist' = [hist EXCEPT ![i] = [h EXCEPT !.ended = t, !.outputs = @ + 1]]
    /\ UNCHANGED <<thrown, result>>

\* returnData.push({ json: responseData, pairedItem: { item: i } }), next item
Push(responseData, h, t) ==
    /\ returnData' = Append(returnData, [json |-> responseData,
                                          pairedItem |-> [item |-> i]])
    /\ i' = i + 1
    /\ pc' = "loop"
    /\ hist' = [hist EXCEPT ![i] = [h EXCEPT !.ended = t, !.outputs = @ + 1]]
    /\ UNCHANGED <<thrown, result>>

\* the loop over the results starting at the second
PushEachButFirst(jsons, h, t) ==
    /\ returnData' = returnData \o [k \in 1..(Len(jsons) - 1) |->
                                       [json |-> jsons[k + 1], pairedItem |-> [item |-> i]]]
    /\ i' = i + 1
    /\ pc' = "loop"
    /\ hist' = [hist EXCEPT ![i] = [h EXCEPT !.ended = t, !.outputs = @ + Len(jsons)]]
    /\ UNCHANGED <<thrown, result>>

\* for (const result of results) returnData.push(...); continue
PushEach(jsons, h, t) ==
    /\ returnData' = returnData \o [k \in 1..Len(jsons) |->
                                       [json |-> jsons[k], pairedItem |-> [item |-> i]]]
    /\ i' = i + 1
    /\ pc' = "loop"
    /\ hist' = [hist EXCEPT ![i] = [h EXCEPT !.ended = t, !.outputs = @ + Len(jsons)]]
    /\ UNCHANGED <<thrown, result>>

\* the handler goes on at p
Goto(p, h) ==
    /\ pc' = p
    /\ hist' = [hist EXCEPT ![i] = h]
    /\ UNCHANGED <<i, returnData, thrown, result>>

\* the request issued twice, neither call awaited before the other
SendTwice(req) ==
    /\ inflight' = inflight + 2
    /\ request' = req
    /\ UNCHANGED <<now, slow, wakeAt>>

\* httpRequestWithAuthentication is called: one more request is outstanding
Send(req) ==
    /\ inflight' = inflight + 1
    /\ request' = req
    /\ UNCHANGED <<now, slow, wakeAt>>

Sent(h) == [h EXCEPT !.http = @ + 1]

\* the handler starts on item i
Handles(res, op) ==
    /\ pc = "loop"
    /\ i < nItems
    /\ resource = res
    /\ operation = op

Began(input, options) ==
    [hist[i] EXCEPT !.input = input, !.options = options, !.began = now]

\* the time an answer takes
Latencies == IF slow < MaxSlow THEN {0, SlowLatency} ELSE {0}

\* the outstanding request is answered after d ms; next more requests are issued
\* in the same step
Received(d, next) ==
    /\ inflight' = inflight - 1 + next
    /\ now' = now + d
    /\ slow' = slow + (IF d > 0 THEN 1 ELSE 0)

\* the history of item i once its request is answered with status code
Answered(d, code) ==
    [hist[i] EXCEPT !.slow = @ + (IF d > 0 THEN 1 ELSE 0),
                    !.answers = Append(@, code),
                    !.steady = @ /\ code = 200]


(***************************************************************************)
(* email / validate, with its retry loop                                   *)
(***************************************************************************)
ValidateRequest(email, options) ==
    [method |-> "POST", url |-> <<"/validate/email">>,
     body |-> Spread(Spread([email |-> email],
                            IF NotFalse(options, "checkSmtp")
                            THEN [check_smtp |-> TRUE] ELSE <<>>),
                     IF Truthy(options, "includeRawDns")
                     THEN [include_raw_dns |-> TRUE] ELSE <<>>)]

\* the retry test with the cap off by one
ShouldRetryOffByOne(error, r) == error.statusCode = 429 /\ r < MAX_RETRIES

\* the retry test without the status-code test
ShouldRetryAnyError(error, r) == r < MAX_RETRIES - 1

\* if (error.statusCode === 429 && retries < MAX_RETRIES - 1)
ShouldRetry(error, r) == error.statusCode = 429 /\ r < MAX_RETRIES - 1

\* the delay computed from the number of retries before this one
BackoffDelayBeforeIncrement(r) == RETRY_DELAY_BASE * 2 ^ (r - 1)

\* await sleep(RETRY_DELAY_BASE * Math.pow(2, retries))
BackoffDelay(r) == RETRY_DELAY_BASE * 2 ^ r

\* while (retries < MAX_RETRIES) { try { response = await request ...
\* after the loop, enrichValidationResult(response!) reads the response
ValidateLoop(r, email, options, h, t) ==
    IF r < MAX_RETRIES
    THEN /\ inflight' = inflight + 1
         /\ request' = ValidateRequest(email, options)
         /\ Goto("validate_http", Sent(h))
    ELSE /\ UNCHANGED <<inflight, request>>
         /\ Catch(TypeError, h, t)

ValidateOptions == {NoOptions, [checkSmtp |-> FALSE]}

ValidateBegin ==
    /\ Handles("email", "validate")
    /\ \E input \in DOMAIN EmailTexts, options \in ValidateOptions :
          LET email == toLowerCase(trim(EmailTexts[input]))
              h == Began(input, options)
          IN IF ~EMAIL_REGEX_test(email)
             THEN /\ Catch(NodeOperationError(
                            <<"Invalid email format: \"">> \o email
                              \o <<"\". Please provide a valid email address.">>, i),
                        h, now)
                  /\ UNCHANGED <<netVars, retries, locals>>
             ELSE /\ retries' = 0
                  /\ locals' = [email |-> email, options |-> options]
                  /\ ValidateLoop(0, email, options, h, now)
                  /\ UNCHANGED <<now, slow, wakeAt>>
    /\ UNCHANGED <<config, call, waitVars>>

ValidateResponse ==
    /\ pc = "validate_http"
    /\ \E d \in Latencies :
          /\ Received(d, 0)
          /\ \/ \E response \in ValidationRecords :
                   /\ Push(enrichValidationResult(response, now + d), Answered(d, 200), now + d)
                   /\ UNCHANGED <<retries, wakeAt>>
             \/ \E code \in ErrorCodes :
                   IF ShouldRetry(HttpError(code), retries)
                   THEN /\ retries' = retries + 1
                        /\ wakeAt' = now + d + BackoffDelay(retries + 1)
                        /\ Goto("validate_backoff",
                                [Answered(d, code) EXCEPT
                                    !.sleeps = Append(@, BackoffDelay(retries + 1))])
                   ELSE /\ Catch(HttpError(code), Answered(d, code), now + d)
                        /\ UNCHANGED <<retries, wakeAt>>
    /\ UNCHANGED <<config, call, request, waitVars, locals>>

\* the backoff sleep resolves; continue: the loop condition is tested again
ValidateBackoffDone ==
    /\ pc = "validate_backoff"
    /\ now' = wakeAt
    /\ ValidateLoop(retries, locals.email, locals.options, hist[i], wakeAt)
    /\ UNCHANGED <<config, call, slow, wakeAt, retries, waitVars, locals>>

(***************************************************************************)
(* email / quickCheck                                                      *)
(***************************************************************************)
QuickCheckBegin ==
    /\ Handles("email", "quickCheck")
    /\ \E input \in DOMAIN EmailTexts :
          LET email == toLowerCase(trim(EmailTexts[input]))
              h == Began(input, NoOptions)
          IN IF ~EMAIL_REGEX_test(email)
             THEN /\ Push([email |-> email, valid |-> FALSE, status |-> "invalid",
                           reason |-> "Invalid email format", is_safe_to_send |-> FALSE,
                           checked_at |-> now], h, now)
                  /\ UNCHANGED netVars
             ELSE /\ Send([method |-> "POST", url |-> <<"/validate/email">>,
                           body |-> [email |-> email, check_smtp |-> FALSE]])
                  /\ Goto("quickCheck_http", Sent(h))
    /\ UNCHANGED <<config, call, retries, waitVars, locals>>

QuickCheckResponse ==
    /\ pc = "quickCheck_http"
    /\ \E d \in Latencies :
          /\ Received(d, 0)
          /\ \/ \E response \in ValidationRecords :
                   Push(Spread(response, [is_safe_to_send |-> response.valid = TRUE,
                                          checked_at |-> now + d]),
                        Answered(d, 200), now + d)
             \/ \E code \in ErrorCodes : Catch(HttpError(code), Answered(d, code), now + d)
    /\ UNCHANGED <<config, call, request, wakeAt, retries, waitVars, locals>>

(***************************************************************************)
(* email / validateMany                                                    *)
(***************************************************************************)
NoValidEmails == <<"No valid email addresses found. Please check your input format.">>

TooManySync(n) ==
    <<"Too many emails (", ToString(n), "). Maximum for sync validation is ",
      ToString(MAX_SYNC_BATCH), ". Use \"Create Batch Job\" for larger lists.">>

TooManyAsync(n) ==
    <<"Too many emails (", ToString(n), "). Maximum is ", ToString(MAX_ASYNC_BATCH), ".">>

\* the ceiling test of the sync batch off by one
OverSyncLimitOffByOne(n) == n > MAX_SYNC_BATCH + 1

\* parsedEmails.length > MAX_SYNC_BATCH
OverSyncLimit(n) == n > MAX_SYNC_BATCH

\* the ceiling test off by one
OverAsyncLimitOffByOne(n) == n > MAX_ASYNC_BATCH + 1

\* parsedEmails.length > MAX_ASYNC_BATCH
OverAsyncLimit(n) == n > MAX_ASYNC_BATCH

ValidateManyOptions ==
    {NoOptions, [splitResults |-> FALSE], [includeStats |-> FALSE], [checkSmtp |-> TRUE]}

ValidateManyBegin ==
    /\ Handles("email", "validateMany")
    /\ \E input \in DOMAIN EmailListTexts, options \in ValidateManyOptions :
          LET parsedLength == Len(ParsedEmailLists[input])
              h == Began(input, options)
          IN IF parsedLength = 0
             THEN /\ Catch(NodeOperationError(NoValidEmails, i), h, now)
                  /\ UNCHANGED <<netVars, locals>>
             ELSE IF OverSyncLimit(parsedLength)
             THEN /\ Catch(NodeOperationError(TooManySync(parsedLength), i), h, now)
                  /\ UNCHANGED <<netVars, locals>>
             ELSE LET dedup == deduplicateEmails(ParsedEmailLists[input])
                  IN /\ locals' = [parsedLength |-> parsedLength, emails |-> dedup.unique,
                                   duplicates |-> dedup.duplicates, options |-> options]
                     /\ Send([method |-> "POST", url |-> <<"/validate/batch">>,
                              body |-> Spread([emails |-> dedup.unique],
                                              IF Truthy(options, "checkSmtp")
                                              THEN [check_smtp |-> TRUE] ELSE <<>>)])
                     /\ Goto("validateMany_http", Sent(h))
    /\ UNCHANGED <<config, call, retries, waitVars>>

\* (response.results as IDataObject[]) || []
ResultsOf(response) == IF "results" \in DOMAIN response THEN response.results ELSE <<>>

\* { ...result, ...(stats ? { _batch_statistics: stats } : {}) } for every result
WithBatchStatistics(results, extra, withStats) ==
    [k \in 1..Len(results) |->
        Spread(Spread(results[k], extra),
               IF withStats
               THEN [_batch_statistics |-> calculateBatchStatistics(results)] ELSE <<>>)]

ValidateManyResponse ==
    /\ pc = "validateMany_http"
    /\ \E d \in Latencies :
          /\ Received(d, 0)
          /\ \/ \E response \in ResultsResponses :
                   LET results == EnrichAll(ResultsOf(response), now + d)
                   IN IF NotFalse(locals.options, "splitResults")
                      THEN PushEach(WithBatchStatistics(results, <<>>,
                                        NotFalse(locals.options, "includeStats")),
                                    [Answered(d, 200) EXCEPT !.last = response], now + d)
                      ELSE Push([total_submitted |-> locals.parsedLength,
                                 total_unique |-> Len(locals.emails),
                                 duplicates_removed |-> locals.duplicates,
                                 results |-> results,
                                 statistics |-> calculateBatchStatistics(results),
                                 validated_at |-> now + d],
                                [Answered(d, 200) EXCEPT !.last = response], now + d)
             \/ \E code \in ErrorCodes : Catch(HttpError(code), Answered(d, code), now + d)
    /\ UNCHANGED <<config, call, request, wakeAt, retries, waitVars, locals>>

(***************************************************************************)
(* batch / createJob                                                       *)
(***************************************************************************)
CreateJobOptions ==
    {NoOptions, [deduplicate |-> FALSE], [priority |-> "high", checkSmtp |-> TRUE]}

CreateJobBody(emails, options) ==
    Spread(Spread([emails |-> emails],
                  IF Truthy(options, "checkSmtp") THEN [check_smtp |-> TRUE] ELSE <<>>),
           IF IsSet(options, "priority") THEN [priority |-> options.priority] ELSE <<>>)

CreateJobBegin ==
    /\ Handles("batch", "createJob")
    /\ \E input \in DOMAIN EmailListTexts, options \in CreateJobOptions :
          LET parsedLength == Len(ParsedEmailLists[input])
              h == Began(input, options)
          IN IF parsedLength = 0
             THEN /\ Catch(NodeOperationError(NoValidEmails, i), h, now)
                  /\ UNCHANGED <<netVars, locals>>
             ELSE IF OverAsyncLimit(parsedLength)
             THEN /\ Catch(NodeOperationError(TooManyAsync(parsedLength), i), h, now)
                  /\ UNCHANGED <<netVars, locals>>
             ELSE LET dedup == deduplicateEmails(ParsedEmailLists[input])
                      emails == IF NotFalse(options, "deduplicate")
                                THEN dedup.unique ELSE ParsedEmailLists[input]
                      duplicatesRemoved == IF NotFalse(options, "deduplicate")
                                           THEN dedup.duplicates ELSE 0
                  IN /\ locals' = [parsedLength |-> parsedLength, emails |-> emails,
                                   duplicatesRemoved |-> duplicatesRemoved,
                                   options |-> options]
                     /\ Send([method |-> "POST", url |-> <<"/jobs">>,
                              body |-> CreateJobBody(emails, options)])
                     /\ Goto("createJob_http", Sent(h))
    /\ UNCHANGED <<config, call, retries, waitVars>>

\* answers of POST /jobs
CreateJobResponses ==
    { [job_id |-> "j1", status |-> "pending"],
      [job_id |-> "j2", status |-> "pending", total_submitted |-> 0] }

CreateJobResponse ==
    /\ pc = "createJob_http"
    /\ \E d \in Latencies :
          /\ Received(d, 0)
          /\ \/ \E response \in CreateJobResponses :
                   Push(Spread(response,
                          [total_submitted |-> locals.parsedLength,
                           total_unique |-> Len(locals.emails),
                           duplicates_removed |-> locals.duplicatesRemoved,
                           submitted_at |-> now + d,
                           estimated_completion |->
                               estimateCompletion(Len(locals.emails),
                                   IF IsSet(locals.options, "priority")
                                   THEN locals.options.priority ELSE "normal",
                                   Truthy(locals.options, "checkSmtp"), now + d)]),
                        Answered(d, 200), now + d)
             \/ \E code \in ErrorCodes : Catch(HttpError(code), Answered(d, code), now + d)
    /\ UNCHANGED <<config, call, request, wakeAt, retries, waitVars, locals>>


(***************************************************************************)
(* batch / getStatus                                                       *)
(***************************************************************************)
JobIdRequired == <<"Job ID is required">>

\* if (!jobId)
IsBlank(jobId) == Len(jobId) = 0

JobUrl(jobId, suffix) == <<"/jobs/">> \o encodeURIComponent(jobId) \o suffix

\* the quotient taken whenever both fields are present, zero or not
ProgressPercentWhenPresent(response) ==
    IF {"total_emails", "processed"} \subseteq DOMAIN response /\ response.total_emails # 0
    THEN RoundDiv(response.processed * 100, response.total_emails)
    ELSE IF "progress" \in DOMAIN response THEN response.progress ELSE 0

\* response.total_emails && response.processed ? Math.round(...) : response.progress || 0
ProgressPercent(response) ==
    IF /\ "total_emails" \in DOMAIN response /\ response.total_emails # 0
       /\ "processed" \in DOMAIN response /\ response.processed # 0
    THEN RoundDiv(response.processed * 100, response.total_emails)
    ELSE IF "progress" \in DOMAIN response THEN response.progress ELSE 0

StatusOf(response) == IF "status" \in DOMAIN response THEN response.status ELSE "undefined"

GetStatusBegin ==
    /\ Handles("batch", "getStatus")
    /\ \E input \in DOMAIN JobIdTexts :
          LET jobId == trim(JobIdTexts[input])
              h == Began(input, NoOptions)
          IN IF IsBlank(jobId)
             THEN /\ Catch(NodeOperationError(JobIdRequired, i), h, now)
                  /\ UNCHANGED netVars
             ELSE /\ Send([method |-> "GET", url |-> JobUrl(jobId, <<>>), body |-> <<>>])
                  /\ Goto("getStatus_http", Sent(h))
    /\ UNCHANGED <<config, call, retries, waitVars, locals>>

GetStatusResponse ==
    /\ pc = "getStatus_http"
    /\ \E d \in Latencies :
          /\ Received(d, 0)
          /\ \/ \E response \in JobResponses :
                   Push(Spread(response,
                          [progress_percent |-> ProgressPercent(response),
                           is_completed |-> StatusOf(response) = "completed",
                           is_failed |-> StatusOf(response) = "failed",
                           is_processing |-> StatusOf(response) \in {"processing", "pending"},
                           is_cancelled |-> StatusOf(response) = "cancelled",
                           checked_at |-> now + d]),
                        Answered(d, 200), now + d)
             \/ \E code \in ErrorCodes : Catch(HttpError(code), Answered(d, code), now + d)
    /\ UNCHANGED <<config, call, request, wakeAt, retries, waitVars, locals>>

(***************************************************************************)
(* batch / getResults                                                      *)
(***************************************************************************)
GetResultsOptions ==
    {NoOptions, [splitResults |-> TRUE], [splitResults |-> TRUE, includeStats |-> FALSE],
     [page |-> 2, filterStatus |-> "risky"]}

ResultsQuery(options) ==
    Spread(Spread(IF NonZero(options, "page") THEN [page |-> options.page] ELSE <<>>,
                  IF NonZero(options, "pageSize")
                  THEN [page_size |-> options.pageSize] ELSE <<>>),
           IF IsSet(options, "filterStatus") /\ options.filterStatus # ""
           THEN [status |-> options.filterStatus] ELSE <<>>)

GetResultsBegin ==
    /\ Handles("batch", "getResults")
    /\ \E input \in DOMAIN JobIdTexts, options \in GetResultsOptions :
          LET jobId == trim(JobIdTexts[input])
              h == Began(input, options)
          IN IF IsBlank(jobId)
             THEN /\ Catch(NodeOperationError(JobIdRequired, i), h, now)
                  /\ UNCHANGED <<netVars, locals>>
             ELSE /\ locals' = [jobId |-> jobId, options |-> options]
                  /\ Send([method |-> "GET", url |-> JobUrl(jobId, <<"/results">>),
                           body |-> <<>>, qs |-> ResultsQuery(options)])
                  /\ Goto("getResults_http", Sent(h))
    /\ UNCHANGED <<config, call, retries, waitVars>>

GetResultsResponse ==
    /\ pc = "getResults_http"
    /\ \E d \in Latencies :
          /\ Received(d, 0)
          /\ \/ \E response \in ResultsResponses :
                   LET results == EnrichAll(ResultsOf(response), now + d)
                       withStats == NotFalse(locals.options, "includeStats")
                   IN IF Truthy(locals.options, "splitResults")
                      THEN PushEach(WithBatchStatistics(results, [job_id |-> locals.jobId],
                                                        withStats),
                                    [Answered(d, 200) EXCEPT !.last = response], now + d)
                      ELSE Push(Spread(Spread(Spread([job_id |-> locals.jobId], response),
                                              [results |-> results]),
                                       Spread(IF withStats
                                              THEN [statistics |->
                                                       calculateBatchStatistics(results)]
                                              ELSE <<>>,
                                              [retrieved_at |-> now + d])),
                                [Answered(d, 200) EXCEPT !.last = response], now + d)
             \/ \E code \in ErrorCodes : Catch(HttpError(code), Answered(d, code), now + d)
    /\ UNCHANGED <<config, call, request, wakeAt, retries, waitVars, locals>>

(***************************************************************************)
(* batch / waitForCompletion                                               *)
(***************************************************************************)
\* the values of the waitOptions collection; maxWait and pollInterval are in
\* seconds, and 0 stands for a field left unset
WaitOptions ==
    { [maxWait |-> 30, pollInterval |-> 10],
      [maxWait |-> 30, pollInterval |-> 20],
      [maxWait |-> 45, pollInterval |-> 0, fetchResults |-> FALSE],
      [maxWait |-> 0, pollInterval |-> 60, includeStats |-> FALSE] }

\* the timeout message without the job's status
TimeoutMessageWithoutStatus(maxWaitMs, lastStatus) ==
    <<"Timeout waiting for job completion after ", ToString(RoundDiv(maxWaitMs, 1000)),
      " seconds.">>

TimeoutMessage(maxWaitMs, lastStatus) ==
    <<"Timeout waiting for job completion after ", ToString(RoundDiv(maxWaitMs, 1000)),
      " seconds. Job is still ", StatusOf(lastStatus), ".">>

JobFailedMessage(lastStatus) ==
    <<"Batch job failed: ",
      IF "error" \in DOMAIN lastStatus THEN lastStatus.error ELSE "Unknown error">>

JobCancelledMessage == <<"Batch job was cancelled">>

\* the loop condition with <= for <
WaitConditionInclusive(t, start, maxWaitMs) == t - start <= maxWaitMs

\* while (Date.now() - startTime < maxWait)
WaitCondition(t, start, maxWaitMs) == t - start < maxWaitMs

\* the top of the polling loop at time t: poll once more, or leave the loop and
\* throw the timeout error (jobCompleted is false whenever the condition fails)
WaitLoop(t, start, maxWaitMs, count, lastStatus, jobId, h) ==
    IF WaitCondition(t, start, maxWaitMs)
    THEN /\ pollCount' = count + 1
         /\ inflight' = inflight + 1
         /\ request' = [method |-> "GET", url |-> JobUrl(jobId, <<>>), body |-> <<>>]
         /\ Goto("wait_poll", [Sent(h) EXCEPT !.polls = @ + 1])
    ELSE /\ pollCount' = count
         /\ UNCHANGED <<inflight, request>>
         /\ Catch(NodeOperationError(TimeoutMessage(maxWaitMs, lastStatus), i), h, t)

WaitBegin ==
    /\ Handles("batch", "waitForCompletion")
    /\ \E input \in DOMAIN JobIdTexts, options \in WaitOptions :
          LET jobId == trim(JobIdTexts[input])
              h == Began(input, options)
          IN IF IsBlank(jobId)
             THEN /\ Catch(NodeOperationError(JobIdRequired, i), h, now)
                  /\ UNCHANGED <<inflight, request, waitVars, locals>>
             ELSE /\ locals' = [jobId |-> jobId, options |-> options]
                  /\ maxWait' = NumberOr(options, "maxWait", DEFAULT_MAX_WAIT) * 1000
                  /\ pollInterval' =
                        NumberOr(options, "pollInterval", DEFAULT_POLL_INTERVAL) * 1000
                  /\ startTime' = now
                  /\ status' = <<>>
                  /\ jobCompleted' = FALSE
                  /\ WaitLoop(now, now, maxWait', 0, <<>>, jobId, h)
    /\ UNCHANGED <<config, call, now, slow, wakeAt, retries>>

\* the descriptor returned once the job is completed
WaitDescriptor(lastStatus, jobId, t, start, count, results, stats) ==
    Spread(Spread(Spread(lastStatus,
                         [requested_job_id |-> jobId,
                          final_status |-> "completed",
                          wait_time_seconds |-> RoundDiv(t - start, 1000),
                          poll_count |-> count]),
                  IF Len(results) > 0 THEN [results |-> results] ELSE <<>>),
           Spread(IF stats # <<>> THEN [statistics |-> stats] ELSE <<>>,
                  [completed_at |-> t]))

\* the results are fetched whatever fetchResults says
AlwaysFetchResults(options) == TRUE

\* if (options.fetchResults !== false)
ShouldFetchResults(options) == NotFalse(options, "fetchResults")

\* the loop without its test for a failed job
KeepsPollingWhenFailed(st) == st \notin {"completed", "cancelled"}

\* the loop going on only while the job is pending or processing
KeepsPollingOnlyWhileProcessing(st) == st \in {"pending", "processing"}

\* the status values on which the loop sleeps and polls again
KeepsPolling(st) == st \notin {"completed", "failed", "cancelled"}

WaitPollResponse ==
    /\ pc = "wait_poll"
    /\ \E d \in Latencies :
          LET t == now + d
          IN \/ \E response \in JobResponses :
                   LET seen == [Answered(d, 200) EXCEPT
                                   !.steady = @ /\ StatusOf(response) = "processing",
                                   !.last = response]
                   IN /\ status' = response
                      /\ now' = t
                      /\ slow' = slow + (IF d > 0 THEN 1 ELSE 0)
                      /\ IF StatusOf(response) = "completed"
                         THEN IF ShouldFetchResults(locals.options)
                              THEN /\ inflight' = inflight
                                   /\ request' = [method |-> "GET",
                                                  url |-> JobUrl(locals.jobId, <<"/results">>),
                                                  body |-> <<>>]
                                   /\ Goto("wait_results",
                                           [Sent(seen) EXCEPT !.fetches = @ + 1])
                                   /\ UNCHANGED <<jobCompleted, wakeAt>>
                              ELSE /\ inflight' = inflight - 1
                                   /\ jobCompleted' = TRUE
                                   /\ Push(WaitDescriptor(response, locals.jobId, t,
                                                          startTime, pollCount, <<>>, <<>>),
                                           seen, t)
                                   /\ UNCHANGED <<request, wakeAt>>
                         ELSE IF ~KeepsPolling(StatusOf(response))
                         THEN /\ inflight' = inflight - 1
                              /\ Catch(NodeOperationError(
                                          IF StatusOf(response) = "failed"
                                          THEN JobFailedMessage(response)
                                          ELSE JobCancelledMessage, i), seen, t)
                              /\ UNCHANGED <<request, jobCompleted, wakeAt>>
                         ELSE /\ inflight' = inflight - 1
                              /\ wakeAt' = t + pollInterval
                              /\ Goto("wait_sleep",
                                      [seen EXCEPT !.sleeps = Append(@, pollInterval)])
                              /\ UNCHANGED <<request, jobCompleted>>
             \/ \E code \in ErrorCodes :
                   /\ Received(d, 0)
                   /\ Catch(HttpError(code), Answered(d, code), t)
                   /\ UNCHANGED <<request, status, jobCompleted, wakeAt>>
    /\ UNCHANGED <<config, call, retries, maxWait, pollInterval, startTime, pollCount, locals>>

WaitResultsResponse ==
    /\ pc = "wait_results"
    /\ \E d \in Latencies :
          /\ Received(d, 0)
          /\ \/ \E response \in ResultsResponses :
                   LET results == EnrichAll(ResultsOf(response), now + d)
                       stats == IF NotFalse(locals.options, "includeStats")
                                THEN calculateBatchStatistics(results) ELSE <<>>
                   IN /\ jobCompleted' = TRUE
                      /\ Push(WaitDescriptor(status, locals.jobId, now + d, startTime,
                                             pollCount, results, stats),
                              Answered(d, 200), now + d)
             \/ \E code \in ErrorCodes :
                   /\ Catch(HttpError(code), Answered(d, code), now + d)
                   /\ UNCHANGED jobCompleted
    /\ UNCHANGED <<config, call, request, wakeAt, retries, maxWait, pollInterval, startTime,
                   status, pollCount, locals>>

\* the loop going round at once, without waiting for the poll interval to pass
WaitSleepDoneAtOnce ==
    /\ pc = "wait_sleep"
    /\ now' = now
    /\ WaitLoop(now, startTime, maxWait, pollCount, status, locals.jobId, hist[i])
    /\ UNCHANGED <<config, call, slow, wakeAt, retries, maxWait, pollInterval, startTime,
                   status, jobCompleted, locals>>

\* await sleep(pollInterval) resolves: back to the loop condition
WaitSleepDone ==
    /\ pc = "wait_sleep"
    /\ now' = wakeAt
    /\ WaitLoop(wakeAt, startTime, maxWait, pollCount, status, locals.jobId, hist[i])
    /\ UNCHANGED <<config, call, slow, wakeAt, retries, maxWait, pollInterval, startTime,
                   status, jobCompleted, locals>>


(***************************************************************************)
(* batch / listJobs, batch / cancelJob, account / getUsage, getPlan        *)
(***************************************************************************)
ListJobsOptions == {NoOptions, [limit |-> 20, status |-> "completed"]}

ListJobsResponses ==
    { <<>>,
      [jobs |-> << [job_id |-> "j1", status |-> "completed"],
                   [job_id |-> "j2", status |-> "pending"] >>] }

ListJobsBegin ==
    /\ Handles("batch", "listJobs")
    /\ \E options \in ListJobsOptions :
          /\ Send([method |-> "GET", url |-> <<"/jobs">>, body |-> <<>>,
                   qs |-> Spread(IF NonZero(options, "limit")
                                 THEN [limit |-> options.limit] ELSE <<>>,
                                 IF IsSet(options, "status") /\ options.status # ""
                                 THEN [status |-> options.status] ELSE <<>>)])
          /\ Goto("listJobs_http", Sent(Began(0, options)))
    /\ UNCHANGED <<config, call, retries, waitVars, locals>>

ListJobsResponse ==
    /\ pc = "listJobs_http"
    /\ \E d \in Latencies :
          /\ Received(d, 0)
          /\ \/ \E response \in ListJobsResponses :
                   LET jobs == IF "jobs" \in DOMAIN response THEN response.jobs ELSE <<>>
                   IN Push([total |-> Len(jobs),
                            jobs |-> [k \in 1..Len(jobs) |->
                                        Spread(jobs[k],
                                          [is_completed |-> jobs[k].status = "completed",
                                           is_processing |->
                                               jobs[k].status \in {"processing", "pending"}])],
                            retrieved_at |-> now + d],
                           Answered(d, 200), now + d)
             \/ \E code \in ErrorCodes : Catch(HttpError(code), Answered(d, code), now + d)
    /\ UNCHANGED <<config, call, request, wakeAt, retries, waitVars, locals>>

CancelJobBegin ==
    /\ Handles("batch", "cancelJob")
    /\ \E input \in DOMAIN JobIdTexts :
          LET jobId == trim(JobIdTexts[input])
              h == Began(input, NoOptions)
          IN IF IsBlank(jobId)
             THEN /\ Catch(NodeOperationError(JobIdRequired, i), h, now)
                  /\ UNCHANGED <<netVars, locals>>
             ELSE /\ locals' = [jobId |-> jobId]
                  /\ Send([method |-> "POST", url |-> JobUrl(jobId, <<"/cancel">>),
                           body |-> <<>>])
                  /\ Goto("cancelJob_http", Sent(h))
    /\ UNCHANGED <<config, call, retries, waitVars>>

CancelJobResponses ==
    { [status |-> "cancelled"], [status |-> "cancelled", job_id |-> "other"] }

CancelJobResponse ==
    /\ pc = "cancelJob_http"
    /\ \E d \in Latencies :
          /\ Received(d, 0)
          /\ \/ \E response \in CancelJobResponses :
                   Push(Spread(response, [job_id |-> locals.jobId, cancelled_at |-> now + d]),
                        Answered(d, 200), now + d)
             \/ \E code \in ErrorCodes : Catch(HttpError(code), Answered(d, code), now + d)
    /\ UNCHANGED <<config, call, request, wakeAt, retries, waitVars, locals>>

\* answers of GET /billing/usage
UsageResponses ==
    { <<>>,
      [validations_used |-> 79, validations_limit |-> 100],
      [validations_used |-> 199, validations_limit |-> 200],
      [validations_used |-> 120, validations_limit |-> 100],
      [validations_used |-> 5, validations_limit |-> 0] }

UsageDecoration(response, t) ==
    LET used == IF "validations_used" \in DOMAIN response
                THEN response.validations_used ELSE 0
        limit == IF "validations_limit" \in DOMAIN response
                 THEN response.validations_limit ELSE 0
        usagePercent == IF limit > 0 THEN RoundDiv(used * 100, limit) ELSE 0
    IN [validations_remaining |-> IF limit > 0 THEN limit - used ELSE 0,
        usage_percent |-> usagePercent,
        is_near_limit |-> usagePercent >= 80,
        is_at_limit |-> usagePercent >= 100,
        retrieved_at |-> t]

GetUsageBegin ==
    /\ Handles("account", "getUsage")
    /\ Send([method |-> "GET", url |-> <<"/billing/usage">>, body |-> <<>>])
    /\ Goto("getUsage_http", Sent(Began(0, NoOptions)))
    /\ UNCHANGED <<config, call, retries, waitVars, locals>>

GetUsageResponse ==
    /\ pc = "getUsage_http"
    /\ \E d \in Latencies :
          /\ Received(d, 0)
          /\ \/ \E response \in UsageResponses :
                   Push(Spread(response, UsageDecoration(response, now + d)),
                        Answered(d, 200), now + d)
             \/ \E code \in ErrorCodes : Catch(HttpError(code), Answered(d, code), now + d)
    /\ UNCHANGED <<config, call, request, wakeAt, retries, waitVars, locals>>

PlanResponses == { [plan |-> "pro"], <<>> }

GetPlanBegin ==
    /\ Handles("account", "getPlan")
    /\ Send([method |-> "GET", url |-> <<"/billing/subscription">>, body |-> <<>>])
    /\ Goto("getPlan_http", Sent(Began(0, NoOptions)))
    /\ UNCHANGED <<config, call, retries, waitVars, locals>>

GetPlanResponse ==
    /\ pc = "getPlan_http"
    /\ \E d \in Latencies :
          /\ Received(d, 0)
          /\ \/ \E response \in PlanResponses :
                   Push(Spread(response, [retrieved_at |-> now + d]), Answered(d, 200), now + d)
             \/ \E code \in ErrorCodes : Catch(HttpError(code), Answered(d, code), now + d)
    /\ UNCHANGED <<config, call, request, wakeAt, retries, waitVars, locals>>

(***************************************************************************)
(* The rest of execute                                                     *)
(***************************************************************************)
\* else { throw new NodeOperationError(..., `Unknown operation: ...`) }
UnknownOperation ==
    /\ pc = "loop"
    /\ i < nItems
    /\ <<resource, operation>> \notin (Operations \ {<<"account", "validate">>})
    /\ Catch(NodeOperationError(<<"Unknown operation: ">> \o OperationName, i),
             Began(0, NoOptions), now)
    /\ UNCHANGED <<config, call, netVars, retries, waitVars, locals>>

\* return [returnData]
Return ==
    /\ pc = "loop"
    /\ i >= nItems
    /\ pc' = "done"
    /\ result' = <<returnData>>
    /\ UNCHANGED <<config, call, i, returnData, thrown, netVars, retries, waitVars, locals, hist>>

Next ==
    \/ ValidateBegin
    \/ ValidateResponse
    \/ ValidateBackoffDone
    \/ QuickCheckBegin
    \/ QuickCheckResponse
    \/ ValidateManyBegin
    \/ ValidateManyResponse
    \/ CreateJobBegin
    \/ CreateJobResponse
    \/ GetStatusBegin
    \/ GetStatusResponse
    \/ GetResultsBegin
    \/ GetResultsResponse
    \/ WaitBegin
    \/ WaitPollResponse
    \/ WaitResultsResponse
    \/ WaitSleepDone
    \/ ListJobsBegin
    \/ ListJobsResponse
    \/ CancelJobBegin
    \/ CancelJobResponse
    \/ GetUsageBegin
    \/ GetUsageResponse
    \/ GetPlanBegin
    \/ GetPlanResponse
    \/ UnknownOperation
    \/ Return

Spec == Init /\ [][Next]_vars


(***************************************************************************)
(* One operation on one item: execute run with a single input item of      *)
(* batch/waitForCompletion, and of email/validate                          *)
(***************************************************************************)
WaitInit ==
    /\ Init
    /\ resource = "batch"
    /\ operation = "waitForCompletion"
    /\ nItems = 1

WaitNext ==
    \/ WaitBegin
    \/ WaitPollResponse
    \/ WaitResultsResponse
    \/ WaitSleepDone
    \/ Return

SpecWait == WaitInit /\ [][WaitNext]_vars

\* execute on one input item, any operation
OneItemInit ==
    /\ Init
    /\ nItems = 1

SpecOneItem == OneItemInit /\ [][Next]_vars

ValidateInit ==
    /\ Init
    /\ resource = "email"
    /\ operation = "validate"

ValidateNext ==
    \/ ValidateBegin
    \/ ValidateResponse
    \/ ValidateBackoffDone
    \/ Return

SpecValidate == ValidateInit /\ [][ValidateNext]_vars

(***************************************************************************)
(* waitForCompletion of the nodes/MailSafePro revision, called for one     *)
(* item: it returns a descriptor (result, pc = "returned") or throws       *)
(* (thrown, pc = "aborted").                                               *)
(***************************************************************************)
\* formatApiError(error, operation) of that revision
MailSafePro_formatApiError(statusCode, op, message) ==
    CASE statusCode = 400 -> <<"Invalid request. Please check your input parameters.">>
      [] statusCode = 401 -> <<"Authentication failed. Please verify your API key is correct.">>
      [] statusCode = 403 -> <<"Access denied. Your plan may not include this feature.">>
      [] statusCode = 404 -> <<"Resource not found. The job ID may be invalid.">>
      [] statusCode = 422 -> <<"Validation error. Please check the email format.">>
      [] statusCode = 429 -> <<"Rate limit exceeded. Please wait before making more requests.">>
      [] statusCode = 500 -> <<"Server error. Please try again later.">>
      [] statusCode = 502 -> <<"Service temporarily unavailable. Please try again.">>
      [] statusCode = 503 -> <<"Service maintenance. Please try again later.">>
      [] OTHER -> op \o <<" failed: ">>
                    \o (IF message = <<>> THEN <<"Unknown error">> ELSE message)
                    \o <<" (", IF statusCode = 0 THEN "unknown" ELSE ToString(statusCode), ")">>

\* return descriptor
MailSafePro_Returns(descriptor, h, t) ==
    /\ result' = descriptor
    /\ pc' = "returned"
    /\ hist' = [hist EXCEPT ![i] = [h EXCEPT !.ended = t]]
    /\ UNCHANGED <<i, returnData, thrown>>

\* catch (error) { throw new NodeOperationError(..., formatApiError(error, ...)) }
MailSafePro_Throws(error, h, t) ==
    /\ thrown' = IF error.name = "HttpError"
                 THEN NodeOperationError(
                          MailSafePro_formatApiError(error.statusCode,
                              <<"Wait for completion">>, error.message), i)
                 ELSE error
    /\ pc' = "aborted"
    /\ hist' = [hist EXCEPT ![i] = [h EXCEPT !.err = error, !.ended = t]]
    /\ UNCHANGED <<i, returnData, result>>

\* the test for the failed and cancelled jobs without the cancelled ones
MailSafePro_IsFailedOrCancelledOnlyFailed(st) == st = "failed"

\* if (status === 'failed' || status === 'cancelled')
MailSafePro_IsFailedOrCancelled(st) == st \in {"failed", "cancelled"}

\* the top of the loop at time t: poll once more, or leave the loop and return
\* the timeout descriptor
MailSafePro_waitLoop(t, start, maxWaitMs, lastStatus, jobId, h) ==
    IF t - start < maxWaitMs
    THEN /\ inflight' = inflight + 1
         /\ request' = [method |-> "GET",
                        url |-> <<"/v1/jobs/">> \o encodeURIComponent(jobId),
                        body |-> <<>>]
         /\ Goto("nodes_poll", [Sent(h) EXCEPT !.polls = @ + 1])
    ELSE /\ UNCHANGED <<inflight, request>>
         /\ MailSafePro_Returns(
                Spread(lastStatus,
                       [is_completed |-> FALSE,
                        is_timeout |-> TRUE,
                        wait_time_seconds |-> RoundDiv(t - start, 1000),
                        message |-> <<"Timeout after ", ToString(RoundDiv(maxWaitMs, 1000)),
                                      " seconds. Job is still ", StatusOf(lastStatus), ".">>]),
                h, t)

MailSafePro_waitBegin ==
    /\ Handles("batch", "waitForCompletion")
    /\ \E input \in DOMAIN JobIdTexts, options \in WaitOptions :
          LET jobId == trim(JobIdTexts[input])
              h == Began(input, options)
          IN IF IsBlank(jobId)
             THEN /\ MailSafePro_Throws(NodeOperationError(JobIdRequired, i), h, now)
                  /\ UNCHANGED <<inflight, request, waitVars, locals>>
             ELSE /\ locals' = [jobId |-> jobId, options |-> options]
                  /\ maxWait' = NumberOr(options, "maxWait", 300) * 1000
                  /\ pollInterval' = NumberOr(options, "pollInterval", 10) * 1000
                  /\ startTime' = now
                  /\ status' = <<>>
                  /\ MailSafePro_waitLoop(now, now, maxWait', <<>>, jobId, h)
                  /\ UNCHANGED <<pollCount, jobCompleted>>
    /\ UNCHANGED <<config, call, now, slow, wakeAt, retries>>

MailSafePro_waitPollResponse ==
    /\ pc = "nodes_poll"
    /\ \E d \in Latencies :
          LET t == now + d
          IN \/ \E response \in JobResponses :
                   LET seen == [Answered(d, 200) EXCEPT !.last = response]
                       elapsed == [wait_time_seconds |-> RoundDiv(t - startTime, 1000)]
                   IN /\ status' = response
                      /\ IF StatusOf(response) = "completed"
                         THEN IF NotFalse(locals.options, "fetchResults")
                              THEN /\ Received(d, 1)
                                   /\ request' =
                                        [method |-> "GET",
                                         url |-> <<"/v1/jobs/">>
                                                   \o encodeURIComponent(locals.jobId)
                                                   \o <<"/results">>,
                                         body |-> <<>>]
                                   /\ Goto("nodes_results",
                                           [Sent(seen) EXCEPT !.fetches = @ + 1])
                                   /\ UNCHANGED wakeAt
                              ELSE /\ Received(d, 0)
                                   /\ MailSafePro_Returns(
                                        Spread(response,
                                               Spread([is_completed |-> TRUE], elapsed)),
                                        seen, t)
                                   /\ UNCHANGED <<request, wakeAt>>
                         ELSE IF MailSafePro_IsFailedOrCancelled(StatusOf(response))
                         THEN /\ Received(d, 0)
                              /\ MailSafePro_Returns(
                                   Spread(response,
                                          Spread([is_completed |-> FALSE,
                                                  is_failed |-> StatusOf(response) = "failed",
                                                  is_cancelled |->
                                                      StatusOf(response) = "cancelled"],
                                                 elapsed)),
                                   seen, t)
                              /\ UNCHANGED <<request, wakeAt>>
                         ELSE /\ Received(d, 0)
                              /\ wakeAt' = t + pollInterval
                              /\ Goto("nodes_sleep",
                                      [seen EXCEPT !.sleeps = Append(@, pollInterval)])
                              /\ UNCHANGED request
             \/ \E code \in ErrorCodes :
                   /\ Received(d, 0)
                   /\ MailSafePro_Throws(HttpError(code), Answered(d, code), t)
                   /\ UNCHANGED <<request, status, wakeAt>>
    /\ UNCHANGED <<config, call, retries, maxWait, pollInterval, startTime, pollCount,
                   jobCompleted, locals>>

MailSafePro_waitResultsResponse ==
    /\ pc = "nodes_results"
    /\ \E d \in Latencies :
          /\ Received(d, 0)
          /\ \/ \E resultsData \in ResultsResponses :
                   LET results == ResultsOf(resultsData)
                   IN MailSafePro_Returns(
                          Spread(status,
                                 [is_completed |-> TRUE,
                                  wait_time_seconds |->
                                      RoundDiv(now + d - startTime, 1000),
                                  results |-> EnrichAll(results, now + d),
                                  results_summary |->
                                      [total |-> NumberOr(resultsData, "total", Len(results)),
                                       page |-> 1,
                                       has_more |-> /\ "total" \in DOMAIN resultsData
                                                    /\ resultsData.total > 100]]),
                          Answered(d, 200), now + d)
             \/ \E code \in ErrorCodes :
                   MailSafePro_Throws(HttpError(code), Answered(d, code), now + d)
    /\ UNCHANGED <<config, call, request, wakeAt, retries, waitVars, locals>>

\* the setTimeout promise resolves: back to the loop condition
MailSafePro_waitSleepDone ==
    /\ pc = "nodes_sleep"
    /\ now' = wakeAt
    /\ MailSafePro_waitLoop(wakeAt, startTime, maxWait, status, locals.jobId, hist[i])
    /\ UNCHANGED <<config, call, slow, wakeAt, retries, waitVars, locals>>

MailSafePro_waitNext ==
    \/ MailSafePro_waitBegin
    \/ MailSafePro_waitPollResponse
    \/ MailSafePro_waitResultsResponse
    \/ MailSafePro_waitSleepDone

SpecMailSafeProWait == WaitInit /\ [][MailSafePro_waitNext]_vars

(***************************************************************************)
(* The helper functions called on their own: the argument is drawn in the  *)
(* initial state and one step applies the function to it.                  *)
(***************************************************************************)
MaxTokens == 4       \* pieces an input text is made of

\* the pieces of the texts handed to parseEmails
Tokens ==
    { <<"a", "@", "b", ".", "c">>, <<"A", "@", "B", ".", "c">>,
      <<"a">>, <<"@">>, <<".">>, <<" ">>, <<",">>, <<";">>, <<"\n">>, <<"\r">>, <<"\t">> }

RECURSIVE Texts(_)
Texts(n) ==
    IF n = 0 THEN {<<>>}
    ELSE LET shorter == Texts(n - 1)
         IN shorter \cup {t \o s : t \in Tokens, s \in shorter}

Called(fn, arg) == call = [fn |-> fn, arg |-> arg, out |-> <<>>, done |-> FALSE]

\* the helper writes its result into the object it was handed
ReturnsThroughArgument(fn, out) ==
    /\ call.fn = fn
    /\ ~call.done
    /\ call' = [call EXCEPT !.out = out, !.arg = out, !.done = TRUE]
    /\ UNCHANGED <<config, loopVars, netVars, retries, waitVars, locals, hist>>

Returns(fn, out) ==
    /\ call.fn = fn
    /\ ~call.done
    /\ call' = [call EXCEPT !.out = out, !.done = TRUE]
    /\ UNCHANGED <<config, loopVars, netVars, retries, waitVars, locals, hist>>

MaxEmails == 4       \* emails in a list handed to deduplicateEmails
MaxScore == 100      \* the highest score, in hundredths

\* the lists handed to deduplicateEmails
EmailPool ==
    { <<"a", "@", "b", ".", "c">>, <<"b", "@", "b", ".", "c">>, <<"c", "@", "b", ".", "c">> }

\* risk and quality scores
Scores == 0..MaxScore

\* the records handed to enrichValidationResult and getRecommendation; the
\* scores may be missing
Records ==
    LET plain == [email : {"a@b.c"}, valid : BOOLEAN,
                  status : {"deliverable", "risky", "undeliverable", "unknown", "catch_all"}]
        scored == plain \cup {Spread(r, [risk_score |-> x]) : r \in plain, x \in Scores}
    IN scored \cup {Spread(r, [quality_score |-> 65]) : r \in scored}

MaxRecords == 3      \* records in a list handed to calculateBatchStatistics

\* the enriched records handed to calculateBatchStatistics
EnrichedPool ==
    { enrichValidationResult(r, 0) :
        r \in { [email |-> "a@b.c", valid |-> TRUE, status |-> "deliverable",
                 risk_score |-> 10, quality_score |-> 65],
                [email |-> "a@b.c", valid |-> TRUE, status |-> "deliverable",
                 risk_score |-> RISK_HIGH],
                [email |-> "a@b.c", valid |-> TRUE, status |-> "risky",
                 risk_score |-> RISK_MEDIUM, quality_score |-> 65],
                [email |-> "a@b.c", valid |-> FALSE, status |-> "undeliverable"],
                [email |-> "a@b.c", valid |-> TRUE, status |-> "unknown",
                 risk_score |-> 10],
                [email |-> "a@b.c", valid |-> TRUE, status |-> "catch_all",
                 risk_score |-> RISK_LOW] } }
    \cup { [email |-> "a@b.c", valid |-> TRUE, status |-> "deliverable", risk_score |-> 10,
            risk_level |-> "low", quality_tier |-> "poor",
            deliverability_status |-> "high", is_high_risk |-> TRUE,
            is_safe_to_send |-> FALSE, should_review |-> TRUE,
            recommendation |-> "Safe to send", validated_at |-> 0] }

HelpersInit ==
    /\ resource = "email"
    /\ operation = "validateMany"
    /\ continueOnFail = FALSE
    /\ nItems = 1
    /\ Idle
    /\ \/ \E text \in Texts(MaxTokens) : Called("parseEmails", text)
       \/ \E emails \in SeqsUpTo(EmailPool, MaxEmails) : Called("deduplicateEmails", emails)
       \/ \E score \in Scores : Called("calculateRiskLevel", score)
       \/ \E score \in Scores : Called("calculateQualityTier", score)
       \/ \E record \in Records : Called("enrichValidationResult", record)
       \/ \E record \in Records : Called("getRecommendation", record)
       \/ \E results \in SeqsUpTo(EnrichedPool, MaxRecords) :
             Called("calculateBatchStatistics", results)
       \/ \E fn \in {"estimateCompletion", "MailSafePro.estimateCompletion"},
             emailCount \in 0..MAX_ASYNC_BATCH,
             priority \in {"low", "normal", "high", "urgent"}, checkSmtp \in BOOLEAN :
             Called(fn, [emailCount |-> emailCount, priority |-> priority,
                         checkSmtp |-> checkSmtp])

CallParseEmails == Returns("parseEmails", parseEmails(call.arg))

CallDeduplicateEmails == Returns("deduplicateEmails", deduplicateEmails(call.arg))

CallCalculateRiskLevel == Returns("calculateRiskLevel", calculateRiskLevel(call.arg))

CallCalculateQualityTier == Returns("calculateQualityTier", calculateQualityTier(call.arg))

CallEnrichValidationResult ==
    Returns("enrichValidationResult", enrichValidationResult(call.arg, now))

CallGetRecommendation == Returns("getRecommendation", getRecommendation(call.arg))

CallCalculateBatchStatistics ==
    Returns("calculateBatchStatistics", calculateBatchStatistics(call.arg))

CallEstimateCompletion ==
    Returns("estimateCompletion",
            estimateCompletion(call.arg.emailCount, call.arg.priority,
                               call.arg.checkSmtp, now))

CallMailSafeProEstimateCompletion ==
    Returns("MailSafePro.estimateCompletion",
            MailSafePro_estimateCompletion(call.arg.emailCount, call.arg.priority,
                                           call.arg.checkSmtp, now))

HelpersNext ==
    \/ CallParseEmails
    \/ CallDeduplicateEmails
    \/ CallCalculateRiskLevel
    \/ CallCalculateQualityTier
    \/ CallEnrichValidationResult
    \/ CallGetRecommendation
    \/ CallCalculateBatchStatistics
    \/ CallEstimateCompletion
    \/ CallMailSafeProEstimateCompletion

SpecHelpers == HelpersInit /\ [][HelpersNext]_vars

\* the call of fn has returned
Returned(fn) == call.fn = fn /\ call.done

(***************************************************************************)
(* createBatchJob of the nodes/MailSafePro revision, called for one item.  *)
(* On the texts of EmailListTexts its parseEmails, which splits at , ; and *)
(* newline only, finds the same emails as parseEmails above.               *)
(***************************************************************************)
MailSafePro_createBatchJobBegin ==
    /\ Handles("batch", "createJob")
    /\ \E input \in DOMAIN EmailListTexts, options \in CreateJobOptions :
          LET parsed == ParsedEmailLists[input]
              h == Began(input, options)
              emails == IF NotFalse(options, "deduplicate") THEN Unique(parsed) ELSE parsed
          IN IF Len(parsed) = 0
             THEN /\ MailSafePro_Throws(
                        NodeOperationError(<<"No valid emails provided">>, i), h, now)
                  /\ UNCHANGED <<netVars, locals>>
             ELSE IF Len(emails) > MAX_ASYNC_BATCH
             THEN /\ MailSafePro_Throws(
                        NodeOperationError(TooManyAsync(Len(emails)), i), h, now)
                  /\ UNCHANGED <<netVars, locals>>
             ELSE /\ locals' = [emails |-> emails, options |-> options]
                  /\ Send([method |-> "POST", url |-> <<"/v1/jobs">>,
                           body |-> CreateJobBody(emails, options)])
                  /\ Goto("nodes_createJob", Sent(h))
    /\ UNCHANGED <<config, call, retries, waitVars>>

MailSafePro_createBatchJobResponse ==
    /\ pc = "nodes_createJob"
    /\ \E d \in Latencies :
          /\ Received(d, 0)
          /\ \/ \E response \in CreateJobResponses :
                   MailSafePro_Returns(
                       Spread(response,
                              [total_emails |-> Len(locals.emails),
                               submitted_at |-> now + d,
                               estimated_completion |->
                                   MailSafePro_estimateCompletion(
                                       Len(locals.emails),
                                       IF IsSet(locals.options, "priority")
                                       THEN locals.options.priority ELSE "undefined",
                                       Truthy(locals.options, "checkSmtp"), now + d)]),
                       Answered(d, 200), now + d)
             \/ \E code \in ErrorCodes :
                   MailSafePro_Throws(
                       NodeOperationError(
                           MailSafePro_formatApiError(code, <<"Create batch job">>,
                                                      HttpError(code).message), i),
                       Answered(d, code), now + d)
    /\ UNCHANGED <<config, call, request, wakeAt, retries, waitVars, locals>>

(***************************************************************************)
(* The two operations that submit a list of emails, for one item; call.fn  *)
(* tells the items handled by createBatchJob of the nodes/MailSafePro      *)
(* revision from those handled by execute.                                 *)
(***************************************************************************)
SubmitInit ==
    /\ resource \in {"email", "batch"}
    /\ operation = IF resource = "email" THEN "validateMany" ELSE "createJob"
    /\ continueOnFail \in BOOLEAN
    /\ nItems = 1
    /\ Idle
    /\ \/ call = NoCall
       \/ resource = "batch" /\ Called("MailSafePro.createBatchJob", <<>>)

SubmitNext ==
    \/ call = NoCall /\ ValidateManyBegin
    \/ ValidateManyResponse
    \/ call = NoCall /\ CreateJobBegin
    \/ CreateJobResponse
    \/ call.fn = "MailSafePro.createBatchJob" /\ MailSafePro_createBatchJobBegin
    \/ MailSafePro_createBatchJobResponse
    \/ Return

SpecSubmit == SubmitInit /\ [][SubmitNext]_vars

(***************************************************************************)
(* Reading the history                                                     *)
(***************************************************************************)
Items == DOMAIN hist
Began_(k) == hist[k].began >= 0
Ended(k) == hist[k].ended >= 0
Elapsed(k) == hist[k].ended - hist[k].began
Failed(k) == hist[k].err # NoError
OutputsOf(k) == SelectSeq(returnData, LAMBDA r : r.pairedItem.item = k)
LastAnswer(k) == hist[k].answers[Len(hist[k].answers)]
\* maxWaitSeconds and pollIntervalSeconds of item k, in ms
MaxWaitOf(k) ==
    1000 * (IF hist[k].options.maxWait = 0 THEN 300 ELSE hist[k].options.maxWait)
PollIntervalOf(k) ==
    1000 * (IF hist[k].options.pollInterval = 0 THEN 10 ELSE hist[k].options.pollInterval)
Waiting(k) == operation = "waitForCompletion" /\ hist[k].polls >= 1


(***************************************************************************)
(* C1.  waitForCompletion, every status poll answered 'processing' and no  *)
(* answer taking time: the polls never exceed ceil(M/P), the wait cannot   *)
(* stop anywhere but at its end, and it ends with the timeout error after  *)
(* exactly ceil(M/P) polls and not before M has elapsed.                   *)
(***************************************************************************)
C1_TimeoutAfterCeilPolls ==
    \A k \in Items :
        (Waiting(k) /\ hist[k].steady /\ hist[k].slow = 0) =>
            /\ hist[k].polls <= CeilDiv(MaxWaitOf(k), PollIntervalOf(k))
            /\ ~Ended(k) => ENABLED WaitNext
            /\ Ended(k) =>
                  /\ hist[k].err.name = "NodeOperationError"
                  /\ hist[k].err.message[1] = "Timeout waiting for job completion after "
                  /\ hist[k].polls = CeilDiv(MaxWaitOf(k), PollIntervalOf(k))
                  /\ Elapsed(k) >= MaxWaitOf(k)
                  /\ (hist[k].options.maxWait = 30 /\ hist[k].options.pollInterval = 10)
                        => (hist[k].polls = 3 /\ Elapsed(k) = 30000)

C1_Witness ==
    \E k \in Items :
        /\ Waiting(k) /\ hist[k].steady /\ hist[k].slow = 0 /\ Ended(k)
        /\ hist[k].options.maxWait = 30 /\ hist[k].options.pollInterval = 10
        /\ hist[k].polls = 3
        /\ hist[k].err.message[1] = "Timeout waiting for job completion after "

(***************************************************************************)
(* C2.  waitForCompletion, a status poll answered 'failed' or 'cancelled': *)
(* the operation has ended with an error (for 'failed', the one carrying   *)
(* the server's error message), and that poll was its last request: no     *)
(* poll, no sleep and no results fetch came after it.                      *)
(***************************************************************************)
C2_FailFastOnFailedOrCancelled ==
    \A k \in Items :
        (Waiting(k) /\ StatusOf(hist[k].last) \in {"failed", "cancelled"}) =>
            /\ Ended(k)
            /\ hist[k].err.name = "NodeOperationError"
            /\ hist[k].err.message =
                  IF StatusOf(hist[k].last) = "cancelled"
                  THEN <<"Batch job was cancelled">>
                  ELSE <<"Batch job failed: ",
                         IF "error" \in DOMAIN hist[k].last
                         THEN hist[k].last.error ELSE "Unknown error">>
            /\ hist[k].http = hist[k].polls
            /\ Len(hist[k].answers) = hist[k].polls
            /\ Len(hist[k].sleeps) = hist[k].polls - 1
            /\ hist[k].fetches = 0
            /\ inflight = 0

C2_Witness ==
    \E k \in Items :
        /\ Waiting(k) /\ Ended(k)
        /\ hist[k].polls = 2
        /\ StatusOf(hist[k].last) = "failed"
        /\ hist[k].err.message = <<"Batch job failed: ", "SMTP pool exhausted">>

(***************************************************************************)
(* C3.  waitForCompletion, a status poll answered 'completed'.             *)
(* As claimed: the operation then returns a success descriptor.            *)
(***************************************************************************)
C3_CompletedAlwaysReturnsDescriptor ==
    \A k \in Items :
        (Waiting(k) /\ StatusOf(hist[k].last) = "completed" /\ Ended(k)) =>
            /\ ~Failed(k)
            /\ Len(OutputsOf(k)) = 1
            /\ OutputsOf(k)[1].json.final_status = "completed"

(***************************************************************************)
(* C3, amended: the success descriptor is returned unless the results      *)
(* request fails, and then the error of that request is raised.  The rest  *)
(* of the claim stands: poll_count is the number of status requests (at    *)
(* least 1), the results are requested at most once, only after            *)
(* 'completed' was observed and only when fetchResults is not false, and   *)
(* no status poll (and no sleep) follows the 'completed' answer.           *)
(***************************************************************************)
C3_CompletedReturnsDescriptorUnlessFetchFails ==
    \A k \in Items :
        Waiting(k) =>
            /\ hist[k].fetches <= 1
            /\ hist[k].fetches = 1 =>
                  /\ StatusOf(hist[k].last) = "completed"
                  /\ ~("fetchResults" \in DOMAIN hist[k].options
                       /\ hist[k].options.fetchResults = FALSE)
            /\ StatusOf(hist[k].last) = "completed" =>
                  /\ hist[k].http = hist[k].polls + hist[k].fetches
                  /\ Len(hist[k].sleeps) = hist[k].polls - 1
                  /\ ~Ended(k) => (pc = "wait_results" /\ hist[k].fetches = 1)
                  /\ (Ended(k) /\ Failed(k)) =>
                        /\ hist[k].fetches = 1
                        /\ LastAnswer(k) # 200
                        /\ hist[k].err = HttpError(LastAnswer(k))
                  /\ (Ended(k) /\ ~Failed(k)) =>
                        /\ Len(OutputsOf(k)) = 1
                        /\ LET json == OutputsOf(k)[1].json
                           IN /\ json.final_status = "completed"
                              /\ json.poll_count = hist[k].polls
                              /\ json.poll_count >= 1
                              /\ json.wait_time_seconds = RoundDiv(Elapsed(k), 1000)

C3_Witness ==
    \E k \in Items :
        /\ Waiting(k) /\ Ended(k) /\ ~Failed(k)
        /\ hist[k].fetches = 1
        /\ Len(OutputsOf(k)) = 1
        /\ OutputsOf(k)[1].json.poll_count = 3
        /\ OutputsOf(k)[1].json.wait_time_seconds = 20

(***************************************************************************)
(* C4.  The retry loop of email/validate.  k answers of 429 followed by a  *)
(* success, k <= 2: the call succeeds with k + 1 requests and k sleeps.    *)
(* Three answers of 429: 3 requests, 2 sleeps, and the third 429 error is  *)
(* the error of the item.  The loop is never left without a response or a  *)
(* propagated error.                                                       *)
(***************************************************************************)
Only429(answers, n) == \A j \in 1..n : answers[j] = 429

C4_RetryOn429UpToThreeAttempts ==
    \A k \in Items :
        (operation = "validate" /\ Ended(k) /\ hist[k].http >= 1) =>
            LET answers == hist[k].answers
                n == Len(answers)
            IN /\ n = hist[k].http
               /\ n <= 3
               /\ Only429(answers, n - 1)
               /\ hist[k].err.name # "TypeError"
               /\ answers[n] = 200 =>
                     /\ ~Failed(k)
                     /\ Len(OutputsOf(k)) = 1
                     /\ Len(hist[k].sleeps) = n - 1
               /\ (n = 3 /\ answers[n] = 429) =>
                     /\ Len(hist[k].sleeps) = 2
                     /\ hist[k].err = HttpError(429)
               /\ answers[n] = 429 => n = 3
               /\ answers[n] # 200 => hist[k].err = HttpError(answers[n])

C4_Witness ==
    \E k \in Items :
        /\ operation = "validate" /\ Ended(k) /\ ~Failed(k)
        /\ hist[k].answers = <<429, 429, 200>>
        /\ hist[k].http = 3
        /\ Len(hist[k].sleeps) = 2

(***************************************************************************)
(* C5.  The retry loop of email/validate: an answer with an error status   *)
(* other than 429, at any attempt, ends the item with that error at once:  *)
(* no sleep and no request follows it.                                     *)
(***************************************************************************)
C5_OtherErrorsAreNotRetried ==
    \A k \in Items :
        (operation = "validate" /\ hist[k].answers # <<>>
            /\ LastAnswer(k) \notin {200, 429}) =>
            /\ Ended(k)
            /\ hist[k].err = HttpError(LastAnswer(k))
            /\ hist[k].http = Len(hist[k].answers)
            /\ Len(hist[k].sleeps) = Len(hist[k].answers) - 1
            /\ (k = i \/ ~continueOnFail) => inflight = 0

C5_Witness ==
    \E k \in Items :
        /\ operation = "validate" /\ Ended(k)
        /\ hist[k].answers = <<429, 500>>
        /\ hist[k].err = HttpError(500)
        /\ Len(hist[k].sleeps) = 1

(***************************************************************************)
(* C6.  An answer of 429 to any request of the node is retried: an item    *)
(* ends with a 429 error only after MAX_RETRIES attempts answered 429.     *)
(***************************************************************************)
C6_Every429IsRetried ==
    \A k \in Items :
        (Ended(k) /\ hist[k].err.statusCode = 429) =>
            LET n == Len(hist[k].answers)
            IN /\ n >= 3
               /\ \A j \in (n - 2)..n : hist[k].answers[j] = 429

(***************************************************************************)
(* C7.  An item whose input fails a local check (the email does not match  *)
(* the pattern; no valid email is left after parsing; more than 100, or    *)
(* for createJob more than 10,000, emails were parsed; the job ID is       *)
(* blank) ends with an error and no HTTP request was issued for it.        *)
(***************************************************************************)
LocalCheckFails(k) ==
    LET input == hist[k].input
    IN CASE resource = "email" /\ operation = "validate" ->
                ~EMAIL_REGEX_test(toLowerCase(trim(EmailTexts[input])))
         [] resource = "email" /\ operation = "validateMany" ->
                Len(ParsedEmailLists[input]) = 0 \/ Len(ParsedEmailLists[input]) > 100
         [] resource = "batch" /\ operation = "createJob" ->
                Len(ParsedEmailLists[input]) = 0 \/ Len(ParsedEmailLists[input]) > 10000
         [] resource = "batch" /\ operation \in {"getStatus", "getResults", "cancelJob",
                                                  "waitForCompletion"} ->
                \A c \in 1..Len(JobIdTexts[input]) : JobIdTexts[input][c] \in Whitespace
         [] OTHER -> FALSE

C7_LocalCheckFailureIssuesNoRequest ==
    \A k \in Items :
        (Began_(k) /\ LocalCheckFails(k)) =>
            /\ Ended(k)
            /\ hist[k].err.name = "NodeOperationError"
            /\ hist[k].http = 0
            /\ hist[k].answers = <<>>
            /\ (k = i \/ ~continueOnFail) => inflight = 0

C7_Witness ==
    \E k \in Items :
        /\ operation = "createJob"
        /\ Ended(k)
        /\ Len(ParsedEmailLists[hist[k].input]) = 10001
        /\ hist[k].err.message = <<"Too many emails (", "10001", "). Maximum is ", "10000", ".">>
        /\ hist[k].http = 0

(***************************************************************************)
(* C8.  continueOnFail true: execute never aborts; every item that raised  *)
(* an error has exactly one output record, paired to it, with success      *)
(* false, error and error_code; and the items after it are processed.      *)
(***************************************************************************)
C8_ContinueOnFailRecordsErrorAndGoesOn ==
    continueOnFail =>
        /\ pc # "aborted"
        /\ thrown = NoError
        /\ \A k \in Items :
              Failed(k) =>
                 /\ i > k
                 /\ Len(OutputsOf(k)) = 1
                 /\ LET json == OutputsOf(k)[1].json
                    IN /\ json.success = FALSE
                       /\ {"error", "error_code"} \subseteq DOMAIN json
                       /\ json.error_code = IF hist[k].err.statusCode = 0 THEN "UNKNOWN"
                                            ELSE ToString(hist[k].err.statusCode)
        /\ \A k \in Items : k < i => Ended(k)
        /\ pc = "done" => (i = nItems /\ result = <<returnData>>)
        /\ pc # "done" => ENABLED Next

C8_Witness ==
    /\ continueOnFail
    /\ pc = "done"
    /\ nItems = 2
    /\ Failed(0)
    /\ ~Failed(1)
    /\ Len(OutputsOf(0)) = 1
    /\ Len(OutputsOf(1)) = 1

(***************************************************************************)
(* C9.  continueOnFail false: the first item that raises an error aborts   *)
(* execute: the error reaches the caller, nothing is requested for a       *)
(* later item, and execute returns no output record at all.                *)
(***************************************************************************)
C9_ErrorAbortsExecute ==
    ~continueOnFail =>
        \A k \in Items :
            Failed(k) =>
               /\ pc = "aborted"
               /\ i = k
               /\ thrown # NoError
               /\ thrown.message = IF hist[k].err.statusCode = 0 THEN hist[k].err.message
                                   ELSE formatApiError(hist[k].err.statusCode, OperationName,
                                                       hist[k].err.message)
               /\ result = <<>>
               /\ inflight = 0
               /\ ~ENABLED Next
               /\ \A j \in Items : j > k => (~Began_(j) /\ hist[j].http = 0)

C9_Witness ==
    /\ ~continueOnFail
    /\ nItems = 2
    /\ pc = "aborted"
    /\ Failed(1)
    /\ Len(returnData) = 1
    /\ result = <<>>

(***************************************************************************)
(* C10.  waitForCompletion with no answer taking time ends no later than   *)
(* maxWaitSeconds after it began.                                          *)
(***************************************************************************)
C10_EndsWithinMaxWait ==
    \A k \in Items :
        (Waiting(k) /\ hist[k].slow = 0 /\ Ended(k)) => Elapsed(k) <= MaxWaitOf(k)

(***************************************************************************)
(* C11.  waitForCompletion sleeps and polls again only after a status of   *)
(* 'pending' or 'processing'.  As claimed: once a poll has observed any    *)
(* other status, no sleep and no status poll follows it.                   *)
(***************************************************************************)
Observed(k) == Waiting(k) /\ hist[k].last # <<>>

C11_PollsAgainOnlyWhilePendingOrProcessing ==
    \A k \in Items :
        (Observed(k) /\ StatusOf(hist[k].last) \notin {"pending", "processing"}) =>
            /\ Len(hist[k].sleeps) = hist[k].polls - 1
            /\ Len(hist[k].answers) = hist[k].http

(***************************************************************************)
(* C11, amended: the loop sleeps and polls again after every status other  *)
(* than 'completed', 'failed' and 'cancelled' (while the deadline has not  *)
(* passed), and after one of these three it issues no further status poll. *)
(* A poll is issued only after a sleep, and every successful answer with   *)
(* another status than the three is followed by a sleep.                   *)
(***************************************************************************)
C11_PollsAgainUnlessTerminal ==
    \A k \in Items :
        Observed(k) =>
            /\ hist[k].polls <= Len(hist[k].sleeps) + 1
            /\ \A j \in 1..Len(hist[k].sleeps) : hist[k].sleeps[j] = PollIntervalOf(k)
            /\ IF StatusOf(hist[k].last) \in {"completed", "failed", "cancelled"}
               THEN /\ Len(hist[k].sleeps) = hist[k].polls - 1
                    /\ Len(hist[k].answers) <= hist[k].polls + hist[k].fetches
                    /\ (k = i /\ ~Ended(k)) => pc = "wait_results"
               ELSE /\ Len(hist[k].sleeps) =
                          Len(SelectSeq(hist[k].answers, LAMBDA code : code = 200))
                    /\ (k = i /\ pc = "wait_sleep") => Len(hist[k].sleeps) = hist[k].polls
                    /\ (k = i /\ ~Ended(k)) => pc \in {"wait_sleep", "wait_poll"}

C11_Witness ==
    \E k \in Items :
        /\ Observed(k)
        /\ StatusOf(hist[k].last) = "paused"
        /\ hist[k].answers = <<200>>
        /\ hist[k].polls = 2
        /\ Len(hist[k].sleeps) = 1

(***************************************************************************)
(* C12.  The three terminal failures of waitForCompletion (job failed, job *)
(* cancelled, timeout).  As claimed: the error carries the last observed   *)
(* job status and the elapsed wait time.                                   *)
(***************************************************************************)
TerminalFailure(k) == Observed(k) /\ Ended(k) /\ hist[k].err.name = "NodeOperationError"

C13_OneRequestAtATime ==
    /\ inflight \in {0, 1}
    /\ \A k \in Items :
          /\ hist[k].http - Len(hist[k].answers) \in {0, 1}
          /\ hist[k].http - Len(hist[k].answers) = (IF k = i THEN inflight ELSE 0)
          /\ k > i => (~Began_(k) /\ hist[k].http = 0)
          /\ k < i => Ended(k)
          /\ Ended(k) => hist[k].http = Len(hist[k].answers)
          /\ \A j \in Items :
                (j < k /\ Began_(k)) => (Ended(j) /\ hist[j].ended <= hist[k].began)
    /\ pc \in {"wait_sleep", "validate_backoff"} => inflight = 0
    /\ inflight = 1 => (i < nItems /\ Began_(i) /\ ~Ended(i))

C13_Witness ==
    /\ nItems = 2
    /\ i = 1
    /\ inflight = 1
    /\ hist[0].http >= 2
    /\ Ended(0)
    /\ hist[1].http = 2
    /\ Len(hist[1].answers) = 1

(***************************************************************************)
(* C14.  parseEmails(input) returns, in input order and with duplicates    *)
(* kept, exactly the fields of the input (delimited by runs of comma,      *)
(* semicolon, newline, carriage return and tab) that, trimmed and          *)
(* lowercased, are not empty and match the pattern: characters that are    *)
(* neither whitespace nor @, then @, then such characters, a dot, and such *)
(* characters.  Every returned string is trimmed and lowercase.            *)
(***************************************************************************)
C14_ParseEmailsKeepsMatchingFieldsInOrder ==
    LET \* the text cut at every single delimiter (two adjacent delimiters leave
        \* an empty field between them)
        RECURSIVE FieldsOf(_)
        FieldsOf(text) ==
            IF text = <<>> THEN << <<>> >>
            ELSE LET rest == FieldsOf(Tail(text))
                 IN IF Head(text) \in {",", ";", "\n", "\r", "\t"}
                    THEN << <<>> >> \o rest
                    ELSE << <<Head(text)>> \o Head(rest) >> \o Tail(rest)
        MatchesPattern(e) ==
            \E at \in 2..Len(e), dot \in 3..(Len(e) - 1) :
                /\ e[at] = "@"
                /\ e[dot] = "."
                /\ at + 1 < dot
                /\ \A k \in 1..Len(e) : e[k] \notin {" ", "\n", "\r", "\t"}
                /\ \A k \in (1..Len(e)) \ {at} : e[k] # "@"
        fields == FieldsOf(call.arg)
        cleaned == [k \in 1..Len(fields) |-> toLowerCase(trim(fields[k]))]
    IN Returned("parseEmails") =>
          /\ call.out = SelectSeq(cleaned, LAMBDA e : e # <<>> /\ MatchesPattern(e))
          /\ \A k \in 1..Len(call.out) :
                LET e == call.out[k]
                IN /\ e # <<>>
                   /\ e[1] # " "
                   /\ e[Len(e)] # " "
                   /\ \A c \in 1..Len(e) : e[c] \notin {"A", "B"}

C14_Witness ==
    /\ Returned("parseEmails")
    /\ call.arg = <<" ", "A", "@", "B", ".", "c", ";", "a", "@", "b", ".", "c">>
    /\ call.out = << <<"a", "@", "b", ".", "c">>, <<"a", "@", "b", ".", "c">> >>

(***************************************************************************)
(* C15.  deduplicateEmails(seq) returns every distinct email of seq        *)
(* exactly once, in the order of first occurrence, with duplicates =       *)
(* length(seq) - length(unique); applied to its own output it returns the  *)
(* same sequence with duplicates = 0.                                      *)
(***************************************************************************)
C15_DeduplicateKeepsFirstOccurrences ==
    Returned("deduplicateEmails") =>
        LET seq == call.arg
            unique == call.out.unique
            First(e) == CHOOSE k \in 1..Len(seq) :
                           seq[k] = e /\ \A j \in 1..(k - 1) : seq[j] # e
        IN /\ {unique[k] : k \in 1..Len(unique)} = {seq[k] : k \in 1..Len(seq)}
           /\ \A a, b \in 1..Len(unique) : a # b => unique[a] # unique[b]
           /\ \A a, b \in 1..Len(unique) : a < b => First(unique[a]) < First(unique[b])
           /\ call.out.duplicates = Len(seq) - Len(unique)
           /\ deduplicateEmails(unique) = [unique |-> unique, duplicates |-> 0]

C15_Witness ==
    /\ Returned("deduplicateEmails")
    /\ call.arg = << <<"b", "@", "b", ".", "c">>, <<"a", "@", "b", ".", "c">>,
                     <<"b", "@", "b", ".", "c">>, <<"a", "@", "b", ".", "c">> >>
    /\ call.out = [unique |-> << <<"b", "@", "b", ".", "c">>, <<"a", "@", "b", ".", "c">> >>,
                   duplicates |-> 2]

(***************************************************************************)
(* C16.  calculateRiskLevel(s) is 'low' iff s < 0.3, 'high' iff s >= 0.7   *)
(* and 'medium' otherwise: exactly 0.3 is 'medium', exactly 0.7 is 'high'. *)
(***************************************************************************)
C16_RiskLevelThresholds ==
    Returned("calculateRiskLevel") =>
        /\ call.out \in {"low", "medium", "high"}
        /\ call.out = "low" <=> call.arg < 30
        /\ call.out = "high" <=> call.arg >= 70
        /\ call.out = "medium" <=> (call.arg >= 30 /\ call.arg < 70)
        /\ call.arg = 30 => call.out = "medium"
        /\ call.arg = 70 => call.out = "high"

C16_Witness ==
    /\ Returned("calculateRiskLevel")
    /\ call.arg = 70
    /\ call.out = "high"

(***************************************************************************)
(* C17.  calculateQualityTier(s) is 'excellent' iff s > 0.8, 'good' iff    *)
(* 0.6 < s <= 0.8, 'fair' iff 0.4 < s <= 0.6 and 'poor' iff s <= 0.4:      *)
(* exactly 0.8 is 'good', exactly 0.6 is 'fair', exactly 0.4 is 'poor'.    *)
(***************************************************************************)
C17_QualityTierThresholds ==
    Returned("calculateQualityTier") =>
        /\ call.out \in {"excellent", "good", "fair", "poor"}
        /\ call.out = "excellent" <=> call.arg > 80
        /\ call.out = "good" <=> (call.arg > 60 /\ call.arg <= 80)
        /\ call.out = "fair" <=> (call.arg > 40 /\ call.arg <= 60)
        /\ call.out = "poor" <=> call.arg <= 40
        /\ call.arg = 80 => call.out = "good"
        /\ call.arg = 60 => call.out = "fair"
        /\ call.arg = 40 => call.out = "poor"

C17_Witness ==
    /\ Returned("calculateQualityTier")
    /\ call.arg = 80
    /\ call.out = "good"

C19_SafeToSendIsValidAndLowRisk ==
    (Returned("enrichValidationResult") /\ call.out.is_safe_to_send = TRUE) =>
        (call.out.valid = TRUE /\ call.out.risk_level = "low")

(***************************************************************************)
(* C20.  getRecommendation takes the first rule that matches, in this      *)
(* order: not valid; status undeliverable; risk_score >= 0.7; >= 0.5;      *)
(* >= 0.3; otherwise safe to send.  An invalid record gets the 'invalid'   *)
(* recommendation whatever its status and score, an undeliverable valid    *)
(* record the 'undeliverable' one whatever its score.                      *)
(***************************************************************************)
C20_RecommendationFirstMatchWins ==
    Returned("getRecommendation") =>
        LET risk == IF "risk_score" \in DOMAIN call.arg THEN call.arg.risk_score ELSE 0
        IN /\ call.arg.valid = FALSE => call.out = "Do not send - Invalid email"
           /\ (call.arg.valid = TRUE /\ call.arg.status = "undeliverable") =>
                 call.out = "Do not send - Undeliverable"
           /\ (call.arg.valid = TRUE /\ call.arg.status # "undeliverable") =>
                 call.out = CASE risk >= 70 -> "High risk - Manual review required"
                              [] risk >= 50 /\ risk < 70 ->
                                     "Medium risk - Consider verification"
                              [] risk >= 30 /\ risk < 50 ->
                                     "Low risk - Safe with monitoring"
                              [] risk < 30 -> "Safe to send"

C20_Witness ==
    /\ Returned("getRecommendation")
    /\ call.arg.valid = FALSE
    /\ call.arg.status = "undeliverable"
    /\ "risk_score" \in DOMAIN call.arg
    /\ call.arg.risk_score = 80
    /\ call.out = "Do not send - Invalid email"

(***************************************************************************)
(* C21: enriching an enriched record again, at a later time, gives the     *)
(* same risk_level, quality_tier, deliverability_status, is_high_risk,     *)
(* is_safe_to_send, should_review and recommendation (validated_at apart), *)
(* and the enriched record keeps every field of the validation record with *)
(* its value.                                                              *)
(***************************************************************************)
C21_EnrichmentIsIdempotent ==
    Returned("enrichValidationResult") =>
        LET once == call.out
            twice == enrichValidationResult(once, now + 1)
            Derived == {"risk_level", "quality_tier", "deliverability_status",
                        "is_high_risk", "is_safe_to_send", "should_review",
                        "recommendation"}
        IN /\ Derived \subseteq DOMAIN once
           /\ DOMAIN twice = DOMAIN once
           /\ \A f \in Derived : twice[f] = once[f]
           /\ \A f \in DOMAIN call.arg : f \in DOMAIN once /\ once[f] = call.arg[f]

\* a risky record with both scores has been enriched
C21_Witness ==
    /\ Returned("enrichValidationResult")
    /\ {"risk_score", "quality_score"} \subseteq DOMAIN call.arg
    /\ call.arg.risk_score = RISK_HIGH
    /\ call.arg.status = "risky"
    /\ call.out.recommendation # call.out.risk_level

(***************************************************************************)
(* C22: calculateBatchStatistics of the empty list is exactly {total: 0};  *)
(* of one or more records that are all 'deliverable' it has                *)
(* deliverability_rate 100; and of any non-empty list each of the three    *)
(* rates lies between 0 and 100.  Rates are in hundredths of a percent, so *)
(* 100 percent is 10000.                                                   *)
(***************************************************************************)
C22_BatchStatistics ==
    Returned("calculateBatchStatistics") =>
        LET results == call.arg
            stats == call.out
        IN IF Len(results) = 0
           THEN DOMAIN stats = {"total"} /\ stats.total = 0
           ELSE /\ stats.total = Len(results)
                /\ (\A k \in 1..Len(results) : results[k].status = "deliverable")
                      => stats.rates.deliverability_rate = 10000
                /\ \A f \in {"deliverability_rate", "risk_rate", "quality_rate"} :
                      stats.rates[f] \in 0..10000

\* the statistics of several records, all deliverable and not all alike
C22_Witness ==
    /\ Returned("calculateBatchStatistics")
    /\ Len(call.arg) = MaxRecords
    /\ \A k \in 1..Len(call.arg) : call.arg[k].status = "deliverable"
    /\ call.arg[1] # call.arg[2]
    /\ call.out.rates.deliverability_rate = 10000
    /\ call.out.rates.quality_rate < 10000

\* the statistics of the empty list
C22_WitnessEmpty == Returned("calculateBatchStatistics") /\ call.arg = <<>>

(***************************************************************************)
(* C23: estimateCompletion lies seconds = max(30, ceil(emailCount * cost * *)
(* multiplier)) after the submission, cost being 8 with the SMTP check and *)
(* 2 without, the multiplier 1.5 for low, 0.6 for high and 1 for any other *)
(* priority; so it is never less than 30 seconds away.  In the             *)
(* nodes/MailSafePro revision it is never less than 60 seconds away.       *)
(***************************************************************************)
C23_EstimateHasFloor ==
    /\ Returned("estimateCompletion") =>
          LET cost == IF call.arg.checkSmtp THEN 8 ELSE 2
              multiplier == IF call.arg.priority = "low" THEN 15
                            ELSE IF call.arg.priority = "high" THEN 6 ELSE 10
              tenths == call.arg.emailCount * cost * multiplier
              seconds == (call.out - now) \div 1000
          IN /\ call.out = now + seconds * 1000
             /\ seconds >= 30
             /\ 10 * seconds >= tenths
             /\ seconds > 30 => 10 * (seconds - 1) < tenths
    /\ Returned("MailSafePro.estimateCompletion") => call.out - now >= 60 * 1000

\* 26 emails at high priority without SMTP: 31.2 seconds, rounded up to 32
C23_Witness ==
    /\ Returned("estimateCompletion")
    /\ call.arg = [emailCount |-> 26, priority |-> "high", checkSmtp |-> FALSE]
    /\ call.out = now + 32000

(***************************************************************************)
(* C24, as stated: for every email count in 1..10000 and either SMTP flag  *)
(* the estimated seconds of high, normal and low priority are strictly     *)
(* increasing, and for every count and priority the estimate with the SMTP *)
(* check is greater than the one without.  The 30 seconds every small      *)
(* estimate is raised to make them equal.                                  *)
(***************************************************************************)
C24_EstimatesStrictlyOrdered ==
    (Returned("estimateCompletion") /\ call.arg.emailCount \in 1..MAX_ASYNC_BATCH) =>
        LET n == call.arg.emailCount
            priority == call.arg.priority
            checkSmtp == call.arg.checkSmtp
            seconds == (call.out - now) \div 1000
        IN /\ priority = "high" => seconds < EstimateSeconds(n, "normal", checkSmtp)
           /\ priority = "normal" => seconds < EstimateSeconds(n, "low", checkSmtp)
           /\ ~checkSmtp => seconds < EstimateSeconds(n, priority, TRUE)

(***************************************************************************)
(* C24, amended: for every email count in 1..10000 the estimated seconds   *)
(* of high, normal and low priority never decrease, and the estimate with  *)
(* the SMTP check is never less than the one without; of two estimates so  *)
(* compared the larger is strictly greater as soon as it is above 30       *)
(* seconds.                                                                *)
(***************************************************************************)
C24_EstimatesOrderedAboveFloor ==
    (Returned("estimateCompletion") /\ call.arg.emailCount \in 1..MAX_ASYNC_BATCH) =>
        LET n == call.arg.emailCount
            priority == call.arg.priority
            checkSmtp == call.arg.checkSmtp
            seconds == (call.out - now) \div 1000
            Ordered(larger) == /\ seconds <= larger
                               /\ larger > 30 => seconds < larger
                               /\ larger <= 30 => seconds = 30 /\ larger = 30
        IN /\ priority = "high" => Ordered(EstimateSeconds(n, "normal", checkSmtp))
           /\ priority = "normal" => Ordered(EstimateSeconds(n, "low", checkSmtp))
           /\ ~checkSmtp => Ordered(EstimateSeconds(n, priority, TRUE))

\* 16 emails without SMTP: 30 seconds at high priority, 32 at normal
C24_Witness ==
    /\ Returned("estimateCompletion")
    /\ call.arg = [emailCount |-> 16, priority |-> "high", checkSmtp |-> FALSE]
    /\ call.out = now + 30000
    /\ EstimateSeconds(16, "normal", FALSE) = 32

(***************************************************************************)
(* C25, as stated: getStatus sets progress_percent to                      *)
(* round(processed / total_emails * 100) whenever the response has both    *)
(* fields, processed = 0 included, otherwise to the response's progress if *)
(* present, otherwise to 0; is_completed, is_failed and is_cancelled are   *)
(* true exactly for the status of their name and is_processing exactly for *)
(* pending and processing.                                                 *)
(***************************************************************************)
C25_ProgressWheneverBothPresent ==
    operation = "getStatus" =>
        \A k \in 1..Len(returnData) :
            LET json == returnData[k].json
            IN "progress_percent" \in DOMAIN json =>
                 /\ json.progress_percent =
                       IF {"processed", "total_emails"} \subseteq DOMAIN json
                       THEN RoundDiv(json.processed * 100, json.total_emails)
                       ELSE IF "progress" \in DOMAIN json THEN json.progress ELSE 0
                 /\ json.is_completed = (json.status = "completed")
                 /\ json.is_failed = (json.status = "failed")
                 /\ json.is_cancelled = (json.status = "cancelled")
                 /\ json.is_processing = (json.status \in {"pending", "processing"})

(***************************************************************************)
(* C25, amended: progress_percent is round(processed / total_emails * 100) *)
(* when the response has both fields and neither is 0; otherwise, a        *)
(* processed of 0 included, it is the response's progress if present,      *)
(* otherwise 0.  The four flags are as stated.                             *)
(***************************************************************************)
C25_ProgressWhenBothNonZero ==
    operation = "getStatus" =>
        \A k \in 1..Len(returnData) :
            LET json == returnData[k].json
                both == /\ {"processed", "total_emails"} \subseteq DOMAIN json
                        /\ json.processed # 0
                        /\ json.total_emails # 0
            IN "progress_percent" \in DOMAIN json =>
                 /\ both => 2 * json.total_emails * json.progress_percent
                               \in (200 * json.processed - json.total_emails + 1)
                                    .. (200 * json.processed + json.total_emails)
                 /\ (~both /\ "progress" \in DOMAIN json) =>
                        json.progress_percent = json.progress
                 /\ (~both /\ "progress" \notin DOMAIN json) => json.progress_percent = 0
                 /\ json.is_completed = (json.status = "completed")
                 /\ json.is_failed = (json.status = "failed")
                 /\ json.is_cancelled = (json.status = "cancelled")
                 /\ json.is_processing = (json.status \in {"pending", "processing"})

\* a pending job with nothing processed yet and a progress of 40 from the server
C25_Witness ==
    /\ operation = "getStatus"
    /\ Len(returnData) = 1
    /\ {"processed", "total_emails", "progress"} \subseteq DOMAIN returnData[1].json
    /\ returnData[1].json.processed = 0
    /\ returnData[1].json.progress_percent = 40
    /\ returnData[1].json.is_processing

(***************************************************************************)
(* C26: getUsage, for a validations_limit above 0 and a validations_used   *)
(* of 0 or more, returns validations_remaining = limit - used,             *)
(* is_near_limit exactly when used is at least 80% of the limit and        *)
(* is_at_limit exactly when used >= limit, so that is_at_limit implies     *)
(* validations_remaining <= 0.  The code compares the rounded percentage:  *)
(* 199 of 200 is rounded to 100 percent.                                   *)
(***************************************************************************)
C26_UsageFlags ==
    operation = "getUsage" =>
        \A k \in 1..Len(returnData) :
            LET json == returnData[k].json
            IN ( /\ {"validations_used", "validations_limit", "usage_percent"}
                       \subseteq DOMAIN json
                 /\ json.validations_limit > 0
                 /\ json.validations_used >= 0 ) =>
                 LET used == json.validations_used
                     limit == json.validations_limit
                 IN /\ json.validations_remaining = limit - used
                    /\ json.is_near_limit = (100 * used >= 80 * limit)
                    /\ json.is_at_limit = (used >= limit)
                    /\ json.is_at_limit => json.validations_remaining <= 0

C28_BackoffDelays ==
    \A k \in Items :
        operation = "validate" =>
            LET sleeps == hist[k].sleeps
                answers == hist[k].answers
                total == (IF Len(sleeps) >= 1 THEN sleeps[1] ELSE 0)
                           + (IF Len(sleeps) >= 2 THEN sleeps[2] ELSE 0)
            IN /\ Len(sleeps) <= 2
               /\ Len(sleeps) <= Len(answers)
               /\ \A j \in 1..Len(sleeps) :
                     /\ answers[j] = 429
                     /\ sleeps[j] = RETRY_DELAY_BASE * 2 ^ j
                     /\ j > 1 => sleeps[j] = 2 * sleeps[j - 1]
               /\ Len(sleeps) >= 1 => sleeps[1] = 2000
               /\ Len(sleeps) >= 2 => sleeps[2] = 4000
               /\ total <= 6000
               /\ (Ended(k) /\ answers # <<>>) =>
                     /\ Len(sleeps) = Len(answers) - 1
                     /\ Elapsed(k) = hist[k].slow * SlowLatency + total

\* three answers of 429: the item ends 6000 ms after it began
C28_Witness ==
    \E k \in Items :
        /\ operation = "validate" /\ Ended(k)
        /\ hist[k].answers = <<429, 429, 429>>
        /\ hist[k].sleeps = <<2000, 4000>>
        /\ hist[k].slow = 0
        /\ Elapsed(k) = 6000

(***************************************************************************)
(* C29: within one waitForCompletion exactly one sleep of                  *)
(* pollIntervalSeconds lies between two consecutive status polls: the n-th *)
(* poll is sent when the n - 1 answers before it and n - 1 poll intervals  *)
(* have passed, and during a sleep no request is outstanding.  No sleep    *)
(* follows a poll that observed completed, failed or cancelled.            *)
(***************************************************************************)
C29_OneSleepBetweenPolls ==
    \A k \in Items :
        Waiting(k) =>
            LET polls == hist[k].polls
                sleeps == hist[k].sleeps
                answered == hist[k].slow * SlowLatency
            IN /\ \A j \in 1..Len(sleeps) : sleeps[j] = PollIntervalOf(k)
               /\ Len(sleeps) \in {polls - 1, polls}
               /\ (k = i /\ pc = "wait_poll") =>
                     /\ Len(sleeps) = polls - 1
                     /\ inflight = 1
                     /\ now - hist[k].began = answered + (polls - 1) * PollIntervalOf(k)
               /\ (k = i /\ pc = "wait_sleep") =>
                     /\ Len(sleeps) = polls
                     /\ inflight = 0
                     /\ wakeAt = now + PollIntervalOf(k)
                     /\ StatusOf(hist[k].last) \notin {"completed", "failed", "cancelled"}
               /\ ( /\ hist[k].last # <<>>
                    /\ Len(hist[k].answers) >= polls
                    /\ StatusOf(hist[k].last) \in {"completed", "failed", "cancelled"} ) =>
                     /\ Len(sleeps) = polls - 1
                     /\ Ended(k) =>
                           Elapsed(k) = answered + (polls - 1) * PollIntervalOf(k)

\* a second poll, sent one poll interval after the first was answered, has
\* observed a failed job
C29_Witness ==
    \E k \in Items :
        /\ Waiting(k) /\ Ended(k)
        /\ hist[k].polls = 2
        /\ StatusOf(hist[k].last) = "failed"
        /\ hist[k].sleeps = <<PollIntervalOf(k)>>
        /\ Elapsed(k) = PollIntervalOf(k)

(***************************************************************************)
(* C30: the output of every successful createJob has total_submitted =     *)
(* total_unique + duplicates_removed, and the request body held            *)
(* total_unique emails; with deduplicate false duplicates_removed is 0 and *)
(* the body held the parsed list as it was, duplicates included.  The      *)
(* fields computed locally override those of the same name in the answer:  *)
(* total_submitted is the length of the parsed list whatever the server    *)
(* sent.                                                                   *)
(***************************************************************************)
C30_CreateJobCounts ==
    operation = "createJob" =>
        \A k \in 1..Len(returnData) :
            LET json == returnData[k].json
                h == hist[returnData[k].pairedItem.item]
                parsed == ParsedEmailLists[h.input]
                emails == request.body.emails
            IN "total_unique" \in DOMAIN json =>
                 /\ json.total_submitted = json.total_unique + json.duplicates_removed
                 /\ json.total_submitted = Len(parsed)
                 /\ json.total_unique = Len(emails)
                 /\ json.submitted_at = h.ended
                 /\ IF "deduplicate" \in DOMAIN h.options /\ h.options.deduplicate = FALSE
                    THEN json.duplicates_removed = 0 /\ emails = parsed
                    ELSE /\ \A a, b \in 1..Len(emails) : emails[a] = emails[b] => a = b
                         /\ \A a \in 1..Len(parsed) :
                               \E b \in 1..Len(emails) : emails[b] = parsed[a]

\* the server answered with a total_submitted of its own; one duplicate removed
C30_Witness ==
    /\ operation = "createJob"
    /\ Len(returnData) = 1
    /\ "total_unique" \in DOMAIN returnData[1].json
    /\ returnData[1].json.job_id = "j2"
    /\ returnData[1].json.total_submitted = 2
    /\ returnData[1].json.duplicates_removed = 1

\* deduplicate is false: the duplicate is submitted
C30_WitnessKeptDuplicate ==
    /\ operation = "createJob"
    /\ Len(returnData) = 1
    /\ "total_unique" \in DOMAIN returnData[1].json
    /\ returnData[1].json.total_unique = 2
    /\ request.body.emails[1] = request.body.emails[2]

(***************************************************************************)
(* C31: for any non-empty list of enriched results the by_action counts    *)
(* are the numbers of records whose is_safe_to_send, should_review and     *)
(* is_high_risk flags are true, read from the flags even where they        *)
(* disagree with risk_score; each by_status count is the number of records *)
(* of that status; every count lies in 0..total; and the four by_status    *)
(* counts add up to total exactly when every status is one of deliverable, *)
(* undeliverable, risky, unknown.                                          *)
(***************************************************************************)
C31_CountsFollowFlagsAndStatus ==
    (Returned("calculateBatchStatistics") /\ Len(call.arg) > 0) =>
        LET results == call.arg
            stats == call.out
            Number(Test(_)) == Cardinality({k \in 1..Len(results) : Test(results[k])})
            Statuses == {"deliverable", "undeliverable", "risky", "unknown"}
            sum == stats.by_status.deliverable + stats.by_status.undeliverable
                     + stats.by_status.risky + stats.by_status.unknown
        IN /\ stats.total = Len(results)
           /\ stats.by_action.safe_to_send = Number(LAMBDA r : r.is_safe_to_send)
           /\ stats.by_action.needs_review = Number(LAMBDA r : r.should_review)
           /\ stats.by_action.high_risk = Number(LAMBDA r : r.is_high_risk)
           /\ DOMAIN stats.by_status = Statuses
           /\ \A s \in Statuses : stats.by_status[s] = Number(LAMBDA r : r.status = s)
           /\ \A s \in Statuses : stats.by_status[s] \in 0..stats.total
           /\ \A a \in DOMAIN stats.by_action : stats.by_action[a] \in 0..stats.total
           /\ (sum = stats.total) <=> (\A k \in 1..Len(results) : results[k].status \in Statuses)

\* a record flagged high risk with a risk_score of 0.10, and a catch_all record
C31_Witness ==
    /\ Returned("calculateBatchStatistics")
    /\ Len(call.arg) = 2
    /\ call.arg[1].is_high_risk /\ call.arg[1].risk_score < RISK_HIGH
    /\ call.arg[2].status = "catch_all"
    /\ call.out.by_action.high_risk = 1
    /\ call.out.by_status.deliverable = 1

(***************************************************************************)
(* C32: whenever enrichValidationResult returns is_safe_to_send = true,    *)
(* the recommendation of the same result is neither of the two 'Do not     *)
(* send' messages, whatever valid, status and risk_score are.              *)
(***************************************************************************)
C32_SafeToSendIsNotDoNotSend ==
    (Returned("enrichValidationResult") /\ call.out.is_safe_to_send = TRUE) =>
        call.out.recommendation \notin {"Do not send - Invalid email",
                                        "Do not send - Undeliverable"}

(***************************************************************************)
(* C33: in every enriched result is_high_risk is true iff risk_level is    *)
(* 'high', should_review is true iff risk_level is 'medium', is_high_risk  *)
(* and should_review are never both true, and neither are is_safe_to_send  *)
(* and is_high_risk.                                                       *)
(***************************************************************************)
C33_FlagsAgreeWithRiskLevel ==
    Returned("enrichValidationResult") =>
        /\ call.out.is_high_risk = (call.out.risk_level = "high")
        /\ call.out.should_review = (call.out.risk_level = "medium")
        /\ ~(call.out.is_high_risk /\ call.out.should_review)
        /\ ~(call.out.is_safe_to_send /\ call.out.is_high_risk)

\* a valid record at the 0.70 boundary: high risk, not to review, not safe
C33_Witness ==
    /\ Returned("enrichValidationResult")
    /\ call.arg.valid = TRUE
    /\ "risk_score" \in DOMAIN call.arg
    /\ call.arg.risk_score = RISK_HIGH
    /\ call.out.risk_level = "high"
    /\ call.out.is_high_risk /\ ~call.out.should_review /\ ~call.out.is_safe_to_send

(***************************************************************************)
(* C34: in the nodes/MailSafePro revision waitForCompletion throws only    *)
(* when the job ID is blank or a remote call fails; for a failed, a        *)
(* cancelled and a timed-out job it returns a descriptor with is_completed *)
(* false; in every descriptor it returns exactly one of is_completed,      *)
(* is_failed, is_cancelled, is_timeout is true; and once a poll has        *)
(* observed completed, failed or cancelled no further poll is issued.      *)
(***************************************************************************)
C34_OlderWaitReturnsDescriptors ==
    LET h == hist[0]
        answers == h.answers
        seen == StatusOf(h.last)
        Terminal == {"completed", "failed", "cancelled"}
        IsTrue(d, f) == f \in DOMAIN d /\ d[f] = TRUE
    IN /\ pc = "aborted" =>
             /\ thrown.name = "NodeOperationError"
             /\ \/ h.http = 0 /\ thrown.message = JobIdRequired
                \/ answers # <<>> /\ answers[Len(answers)] # 200
       /\ (answers # <<>> /\ \A j \in 1..Len(answers) : answers[j] = 200) =>
             pc # "aborted"
       /\ pc = "returned" =>
             /\ Cardinality({f \in {"is_completed", "is_failed", "is_cancelled",
                                      "is_timeout"} : IsTrue(result, f)}) = 1
             /\ IsTrue(result, "is_completed") = (seen = "completed")
             /\ IsTrue(result, "is_failed") = (seen = "failed")
             /\ IsTrue(result, "is_cancelled") = (seen = "cancelled")
             /\ IsTrue(result, "is_timeout") = (seen \notin Terminal)
             /\ seen # "completed" => result.is_completed = FALSE
             /\ IsTrue(result, "is_timeout") => now - startTime >= maxWait
       /\ (h.last # <<>> /\ seen \in Terminal) =>
             /\ pc \in {"returned", "aborted", "nodes_results"}
             /\ Len(h.sleeps) = h.polls - 1
             /\ Len(SelectSeq(answers, LAMBDA code : code = 200)) <= h.polls + h.fetches
             /\ inflight = IF pc = "nodes_results" THEN 1 ELSE 0

\* a second poll saw the job cancelled: a descriptor is returned
C34_Witness ==
    /\ pc = "returned"
    /\ hist[0].polls = 2
    /\ StatusOf(hist[0].last) = "cancelled"
    /\ result.is_cancelled /\ ~result.is_completed /\ ~result.is_failed

\* the wait ran out while the job was still processing: a descriptor is returned
C34_WitnessTimeout ==
    /\ pc = "returned"
    /\ "is_timeout" \in DOMAIN result
    /\ result.is_timeout /\ ~result.is_completed
    /\ StatusOf(hist[0].last) = "processing"

(***************************************************************************)
(* C35: every output record of execute is paired with the input item that  *)
(* was being processed when it was pushed, and the records appear in       *)
(* non-decreasing order of that index, whatever the mix of successful      *)
(* items, items split into several records and, with continueOnFail, failed*)
(* items.                                                                  *)
(***************************************************************************)
C35_OutputsPairedInOrder ==
    /\ \A k \in Items : Len(OutputsOf(k)) = hist[k].outputs
    /\ \A j \in 1..Len(returnData) :
          /\ returnData[j].pairedItem.item \in Items
          /\ returnData[j].pairedItem.item <= i
          /\ pc = "loop" => returnData[j].pairedItem.item < i
          /\ j > 1 => returnData[j - 1].pairedItem.item <= returnData[j].pairedItem.item

\* an error record of the first item, then two split results of the second
C35_Witness ==
    /\ pc = "done"
    /\ Len(returnData) = 3
    /\ returnData[1].pairedItem.item = 0
    /\ "success" \in DOMAIN returnData[1].json
    /\ returnData[1].json.success = FALSE
    /\ returnData[2].pairedItem.item = 1
    /\ returnData[3].pairedItem.item = 1
    /\ hist[1].outputs = 2

(***************************************************************************)
(* C36, as stated: when execute returns normally every input item has      *)
(* contributed at least one output record, a result or, with               *)
(* continueOnFail, an error record, also for validateMany and getResults   *)
(* splitting their results when the server answers an empty results list.  *)
(***************************************************************************)
C36_EveryItemHasOutput ==
    pc = "done" => \A k \in Items : Len(OutputsOf(k)) >= 1

(***************************************************************************)
(* C36, amended: when execute returns normally every input item has        *)
(* contributed at least one output record, except the validateMany and     *)
(* getResults items that split their results and were answered no results  *)
(* (the list missing or empty): these contribute none.  A splitting item   *)
(* contributes one record for each result, a failed item one error record, *)
(* any other item one record.                                              *)
(***************************************************************************)
C36_EveryItemHasOutputUnlessNoResults ==
    pc = "done" =>
        \A k \in Items :
            LET h == hist[k]
                splits == \/ operation = "validateMany" /\ NotFalse(h.options, "splitResults")
                          \/ operation = "getResults" /\ Truthy(h.options, "splitResults")
                answered == ~Failed(k) /\ h.answers # <<>> /\ LastAnswer(k) = 200
            IN /\ Ended(k)
               /\ Failed(k) => continueOnFail /\ Len(OutputsOf(k)) = 1
               /\ (~Failed(k) /\ ~splits) => Len(OutputsOf(k)) = 1
               /\ (~Failed(k) /\ splits) =>
                     /\ answered
                     /\ Len(OutputsOf(k)) = Len(ResultsOf(h.last))
               /\ (Len(OutputsOf(k)) = 0) <=>
                     (splits /\ answered /\ ResultsOf(h.last) = <<>>)

\* validateMany, splitting, answered an empty results list: the item leaves
\* no record, and execute returns
C36_Witness ==
    /\ pc = "done"
    /\ operation = "validateMany"
    /\ \E k \in Items :
          /\ ~Failed(k)
          /\ hist[k].last = [results |-> <<>>]
          /\ Len(OutputsOf(k)) = 0


(***************************************************************************)
(* C37  Every POST /jobs request carries between 1 and 10,000 emails and   *)
(* every POST /validate/batch request between 1 and 100.  The ceiling is   *)
(* applied to the parsed list, before deduplication: an item whose parsed  *)
(* list is longer than the ceiling ends with the "Too many emails" error   *)
(* and without a request, even when its distinct emails are no more than   *)
(* the ceiling.  In the nodes/MailSafePro revision createBatchJob applies  *)
(* the ceiling after deduplication: such a list is submitted, with its     *)
(* distinct emails, unless deduplication is switched off.                  *)
(***************************************************************************)
C37_CeilingsBeforeDeduplication ==
    /\ (request.method = "POST" /\ request.url \in {<<"/jobs">>, <<"/v1/jobs">>})
          => Len(request.body.emails) \in 1..MAX_ASYNC_BATCH
    /\ (request.method = "POST" /\ request.url = <<"/validate/batch">>)
          => Len(request.body.emails) \in 1..MAX_SYNC_BATCH
    /\ \A k \in DOMAIN hist :
          hist[k].began >= 0 =>
             LET parsed == ParsedEmailLists[hist[k].input]
                 distinct == {parsed[j] : j \in DOMAIN parsed}
                 ceiling == IF operation = "validateMany"
                            THEN MAX_SYNC_BATCH ELSE MAX_ASYNC_BATCH
                 tooMany == IF operation = "validateMany"
                            THEN TooManySync(Len(parsed)) ELSE TooManyAsync(Len(parsed))
             IN Len(parsed) > ceiling =>
                   IF call = NoCall
                   THEN /\ hist[k].http = 0
                        /\ hist[k].ended = hist[k].began
                        /\ hist[k].err.name = "NodeOperationError"
                        /\ hist[k].err.message = tooMany
                   ELSE IF "deduplicate" \in DOMAIN hist[k].options
                           /\ hist[k].options.deduplicate = FALSE
                   THEN /\ hist[k].http = 0
                        /\ hist[k].err.message = tooMany
                   ELSE /\ hist[k].http = 1
                        /\ request.url = <<"/v1/jobs">>
                        /\ Len(request.body.emails) = Cardinality(distinct)

\* a list of 101 copies of one email is rejected by validateMany without a request
C37_Witness ==
    /\ call = NoCall
    /\ operation = "validateMany"
    /\ hist[0].began >= 0
    /\ Len(ParsedEmailLists[hist[0].input]) = MAX_SYNC_BATCH + 1
    /\ Len(Unique(ParsedEmailLists[hist[0].input])) = 1
    /\ hist[0].err.message = TooManySync(MAX_SYNC_BATCH + 1)
    /\ hist[0].http = 0

\* a list of 10,001 copies of one email is rejected by createJob without a request
C37_WitnessCreateJob ==
    /\ call = NoCall
    /\ operation = "createJob"
    /\ hist[0].began >= 0
    /\ Len(ParsedEmailLists[hist[0].input]) = MAX_ASYNC_BATCH + 1
    /\ hist[0].err.message = TooManyAsync(MAX_ASYNC_BATCH + 1)
    /\ hist[0].http = 0

\* and submitted as one email by createBatchJob of the nodes/MailSafePro revision
C37_WitnessCreateBatchJob ==
    /\ call.fn = "MailSafePro.createBatchJob"
    /\ hist[0].began >= 0
    /\ Len(ParsedEmailLists[hist[0].input]) = MAX_ASYNC_BATCH + 1
    /\ request.url = <<"/v1/jobs">>
    /\ Len(request.body.emails) = 1
    /\ pc = "returned"

====
